---- MODULE Spec2Model ----
(***************************************************************************)
(* Agent / Prompt definitions of cc-switch and their projection into the   *)
(* files of the CLI tools (src-tauri/src/agents, services, database/dao).  *)
(*                                                                         *)
(* Text is a sequence of tokens.  A token is a string that stands for a    *)
(* run of bytes holding no newline; the newline is the token NL.  A marker *)
(* is the three tokens format! builds it from, so that `find` is a real    *)
(* substring search.                                                       *)
(***************************************************************************)
EXTENDS Integers, Sequences, FiniteSets, TLC

VARIABLES
    prompts,      \* table `prompts`: stored prompt id -> row
    promptFile,   \* the prompt file of each tool
    now,          \* SystemTime::now() in seconds
    agents,       \* table `agent_definitions`: stored agent id -> row
    agentFile,    \* <tool dir>/agents/<id>.md of the per-file tools
    sharedFile,   \* ~/.codex/AGENTS.md and ~/.gemini/GEMINI.md
    cIn,          \* codec runs: the haystack the run starts from
    cOps,         \* codec runs: the calls made so far
    cOut,         \* codec runs: the result of each call
    last,         \* the last completed service call and the one before it
    calls,        \* the Dispatcher calls the last AgentsService call made
    tasks         \* service calls running side by side: each one's position and locals

vars == <<prompts, promptFile, now, agents, agentFile, sharedFile, cIn, cOps, cOut, last, calls, tasks>>

promptVars == <<prompts, promptFile, now>>
agentVars == <<agents, agentFile, sharedFile>>
codecVars == <<cIn, cOps, cOut>>
history == <<last, calls>>

-----------------------------------------------------------------------------
(* Bounds of the model *)

MaxHayPieces == 4
MaxFileLen == 40
MaxClock == 1

-----------------------------------------------------------------------------
(* Execution contexts: the Tauri commands are `async fn`, so two of them can *)
(* run side by side.  A task is one such call; it is idle until it is made. *)

Tasks == {1, 2}

IdleTask == [pc |-> "idle"]

\* no command is running
NoTasks == [t \in Tasks |-> IdleTask]

-----------------------------------------------------------------------------
(* Strings *)

NL == "\n"

Min(S) == CHOOSE x \in S : \A y \in S : x <= y

\* str::find: the 1-based index of the first occurrence, 0 for None
Find(hay, needle) ==
    LET n == Len(needle)
        hits == {i \in 1..(Len(hay) - n + 1) : SubSeq(hay, i, i + n - 1) = needle}
    IN  IF hits = {} THEN 0 ELSE Min(hits)

\* str::contains
Contains(hay, needle) == needle = <<>> \/ Find(hay, needle) # 0

\* str::matches(..).count() for a needle that cannot overlap itself
Count(hay, needle) ==
    LET n == Len(needle)
    IN  Cardinality({i \in 1..(Len(hay) - n + 1) : SubSeq(hay, i, i + n - 1) = needle})

\* str::ends_with
EndsWith(s, suf) ==
    /\ Len(suf) <= Len(s)
    /\ SubSeq(s, Len(s) - Len(suf) + 1, Len(s)) = suf

\* str::starts_with
StartsWith(s, pre) ==
    /\ Len(pre) <= Len(s)
    /\ SubSeq(s, 1, Len(pre)) = pre

\* &s[from..] with a 1-based `from`
From(s, from) == SubSeq(s, from, Len(s))

\* &s[..to] : the tokens before the 1-based position `to`
Before(s, to) == SubSeq(s, 1, to - 1)

-----------------------------------------------------------------------------
(* agents/codex.rs and agents/gemini.rs: the marker block codec.  The two  *)
(* files hold the same functions, token for token.                         *)

start_marker(id) == <<"<!-- cc-switch:agent:", id, " -->">>

end_marker(id) == <<"<!-- /cc-switch:agent:", id, " -->">>

\* mutant of build_block: the heading line is left out
build_block_no_heading(agent) ==
    LET b1 == start_marker(agent.id) \o <<NL>> \o <<NL>> \o agent.content
        b2 == IF ~EndsWith(b1, <<NL>>) THEN b1 \o <<NL>> ELSE b1
    IN  b2 \o <<NL>> \o end_marker(agent.id) \o <<NL>>

build_block(agent) ==
    LET b1 == start_marker(agent.id) \o <<NL>> \o <<"# ">> \o agent.name \o <<NL>>
              \o <<NL>> \o agent.content
        b2 == IF ~EndsWith(b1, <<NL>>) THEN b1 \o <<NL>> ELSE b1
    IN  b2 \o <<NL>> \o end_marker(agent.id) \o <<NL>>

\* mutant of AfterEnd: the position of the end marker itself
AfterEnd_at_marker(content, end_pos, end) == end_pos

\* the position after the end marker, past one newline when one follows
AfterEnd(content, end_pos, end) ==
    LET after_end == end_pos + Len(end)
    IN  IF StartsWith(From(content, after_end), <<NL>>) THEN after_end + 1 ELSE after_end

\* mutant of upsert_block: the block is appended whether or not one is found
upsert_block_appending(content, agent) ==
    LET r1 == IF content # <<>> /\ ~EndsWith(content, <<NL>>)
              THEN content \o <<NL>> ELSE content
        r2 == IF r1 # <<>> /\ ~EndsWith(r1, <<NL, NL>>)
              THEN r1 \o <<NL>> ELSE r1
    IN  r2 \o build_block(agent)

\* mutant of upsert_block: the second newline of the gap is never added
upsert_block_single_newline(content, agent) ==
    LET start_pos == Find(content, start_marker(agent.id))
        end_pos == Find(content, end_marker(agent.id))
    IN  IF start_pos # 0 /\ end_pos # 0
        THEN Before(content, start_pos) \o build_block(agent)
                 \o From(content, AfterEnd(content, end_pos, end_marker(agent.id)))
        ELSE (IF content # <<>> /\ ~EndsWith(content, <<NL>>)
              THEN content \o <<NL>> ELSE content) \o build_block(agent)

upsert_block(content, agent) ==
    LET start == start_marker(agent.id)
        end == end_marker(agent.id)
        new_block == build_block(agent)
        start_pos == Find(content, start)
        end_pos == Find(content, end)
    IN  IF start_pos # 0 /\ end_pos # 0
        THEN Before(content, start_pos) \o new_block
                 \o From(content, AfterEnd(content, end_pos, end))
        ELSE LET r1 == IF content # <<>> /\ ~EndsWith(content, <<NL>>)
                       THEN content \o <<NL>> ELSE content
                 r2 == IF r1 # <<>> /\ ~EndsWith(r1, <<NL, NL>>)
                       THEN r1 \o <<NL>> ELSE r1
             IN  r2 \o new_block

\* mutant of remove_block: both newlines of a blank line before the block go
remove_block_whole_gap(content, id) ==
    LET start_pos == Find(content, start_marker(id))
        end_pos == Find(content, end_marker(id))
    IN  IF start_pos # 0 /\ end_pos # 0
        THEN LET start_pos2 == IF start_pos > 2 /\ EndsWith(Before(content, start_pos), <<NL, NL>>)
                               THEN start_pos - 2 ELSE start_pos
             IN  Before(content, start_pos2)
                     \o From(content, AfterEnd(content, end_pos, end_marker(id)))
        ELSE content

\* mutant of remove_block: a start marker alone is taken for a block
remove_block_lone_start(content, id) ==
    LET start_pos == Find(content, start_marker(id))
        end_pos == Find(content, end_marker(id))
    IN  IF start_pos # 0
        THEN Before(content, start_pos)
                 \o (IF end_pos # 0
                     THEN From(content, AfterEnd(content, end_pos, end_marker(id)))
                     ELSE <<>>)
        ELSE content

\* mutant of remove_block: the newline upsert_block added before the block stays
remove_block_keeping_gap(content, id) ==
    LET start_pos == Find(content, start_marker(id))
        end_pos == Find(content, end_marker(id))
    IN  IF start_pos # 0 /\ end_pos # 0
        THEN Before(content, start_pos)
                 \o From(content, AfterEnd(content, end_pos, end_marker(id)))
        ELSE content

remove_block(content, id) ==
    LET start == start_marker(id)
        end == end_marker(id)
        start_pos == Find(content, start)
        end_pos == Find(content, end)
    IN  IF start_pos # 0 /\ end_pos # 0
        THEN LET after_end == AfterEnd(content, end_pos, end)
                 start_pos2 == IF start_pos > 1 /\ EndsWith(Before(content, start_pos), <<NL, NL>>)
                               THEN start_pos - 1 ELSE start_pos
             IN  Before(content, start_pos2) \o From(content, after_end)
        ELSE content

-----------------------------------------------------------------------------
(* agent.rs, app_config: the definition record *)

Apps == {"claude", "codex", "gemini", "opencode"}

PerFileApps == {"claude", "opencode"}

SharedApps == {"codex", "gemini"}

\* McpApps::default()
NoApps == [a \in Apps |-> FALSE]

\* Option<String>: None
NoDescription == [some |-> FALSE, text |-> <<>>]

AgentDefinition(id, name, content, description, apps) ==
    [id |-> id, name |-> name, content |-> content, description |-> description, apps |-> apps]

AgentIds == {"a", "b"}

-----------------------------------------------------------------------------
(* Codec runs: upsert_block and remove_block applied, one call after       *)
(* another, to a haystack drawn from the bounded set Haystacks.            *)

HayPieces == {start_marker("a"), end_marker("a"), <<NL>>, <<"x">>}

RECURSIVE HaysOf(_)
HaysOf(n) ==
    IF n = 0 THEN {<<>>}
    ELSE LET shorter == HaysOf(n - 1)
         IN  shorter \cup {h \o p : h \in shorter, p \in HayPieces}

Haystacks == HaysOf(MaxHayPieces)

CodecContents ==
    {<<>>, <<"c1">>, <<"c1", NL>>, <<"c2">>, <<"c1", "c2">>, end_marker("a"), start_marker("a")}

CodecDefs ==
    {AgentDefinition(id, <<"N">>, c, NoDescription, NoApps) : id \in AgentIds, c \in CodecContents}
    \cup {AgentDefinition("a", end_marker("a"), <<"c1">>, NoDescription, NoApps)}

CodecCall(kind, id, agent) == [kind |-> kind, id |-> id, agent |-> agent]

\* the haystack the next call reads
CodecCur == IF cOps = <<>> THEN cIn ELSE cOut[Len(cOut)]

InitCodec ==
    /\ cIn \in Haystacks
    /\ cOps = <<>>
    /\ cOut = <<>>

CodecUpsert(agent) ==
    /\ Len(cOps) \in {0, 1}
    /\ cOps' = Append(cOps, CodecCall("upsert", agent.id, agent))
    /\ cOut' = Append(cOut, upsert_block(CodecCur, agent))
    /\ UNCHANGED <<cIn, promptVars, agentVars, tasks>>

CodecRemove(id) ==
    /\ Len(cOps) \in {0, 1}
    /\ cOps' = Append(cOps, CodecCall("remove", id, AgentDefinition(id, <<>>, <<>>, NoDescription, NoApps)))
    /\ cOut' = Append(cOut, remove_block(CodecCur, id))
    /\ UNCHANGED <<cIn, promptVars, agentVars, tasks>>

-----------------------------------------------------------------------------
(* Block runs: upsert_block and remove_block applied, up to MaxBlockOps      *)
(* times, for three agents with plain names and contents, to a shared file  *)
(* that starts empty or with text a user left in it.                        *)

MaxBlockOps == 3

BlockIds == {"a", "b", "c"}

BlockContents == {<<"c1">>, <<"c2">>}

BlockDefs ==
    {AgentDefinition(id, <<"N">>, c, NoDescription, NoApps) : id \in BlockIds, c \in BlockContents}

\* the shared file before the first call: empty, a user's line, or the end
\* marker of a left behind by a hand edit
BlockFiles == {<<>>, <<"x", NL>>, end_marker("a") \o <<NL>>}

InitBlocks ==
    /\ cIn \in BlockFiles
    /\ cOps = <<>>
    /\ cOut = <<>>

BlocksUpsert(agent) ==
    /\ Len(cOps) < MaxBlockOps
    /\ cOps' = Append(cOps, CodecCall("upsert", agent.id, agent))
    /\ cOut' = Append(cOut, upsert_block(CodecCur, agent))
    /\ UNCHANGED <<cIn, promptVars, agentVars, tasks>>

BlocksRemove(id) ==
    /\ Len(cOps) < MaxBlockOps
    /\ cOps' = Append(cOps, CodecCall("remove", id, AgentDefinition(id, <<>>, <<>>, NoDescription, NoApps)))
    /\ cOut' = Append(cOut, remove_block(CodecCur, id))
    /\ UNCHANGED <<cIn, promptVars, agentVars, tasks>>

-----------------------------------------------------------------------------
(* Files *)

NoFile == [exists |-> FALSE, text |-> <<>>]

\* config::write_text_file as its callers use it: the whole file is replaced
FileWith(text) == [exists |-> TRUE, text |-> text]

-----------------------------------------------------------------------------
(* prompt.rs, database/dao/prompts.rs: the prompts table.  A row keeps the *)
(* fields the service reads: content and the four enabled columns.  An id  *)
(* is a pair <<prefix, number>>, as format!("imported-{timestamp}") builds *)
(* it.                                                                     *)

Prompt(id, content, apps) == [id |-> id, content |-> content, apps |-> apps]

\* PromptApps::default()
PromptAppsDefault == [a \in Apps |-> FALSE]

EmptyTable == [i \in {} |-> 0]

\* services/prompt.rs app_to_col
app_to_col(app) ==
    CASE app = "claude" -> "claude_enabled"
      [] app = "codex" -> "codex_enabled"
      [] app = "gemini" -> "gemini_enabled"
      [] app = "opencode" -> "opencode_enabled"

\* the PromptApps field get_prompts fills from a column
ColumnApp(col) == CHOOSE a \in Apps : app_to_col(a) = col

\* services/prompt.rs app_enabled
app_enabled(apps, app) == apps[app]

\* INSERT OR REPLACE INTO prompts
save_prompt(table, prompt) ==
    [i \in DOMAIN table \cup {prompt.id} |->
        IF i = prompt.id THEN [content |-> prompt.content, apps |-> prompt.apps] ELSE table[i]]

\* DELETE FROM prompts WHERE id = ?1
db_delete_prompt(table, id) == [i \in DOMAIN table \ {id} |-> table[i]]

\* UPDATE prompts SET {app_col} = 0
ClearColumn(table, app_col) ==
    [i \in DOMAIN table |-> [table[i] EXCEPT !.apps[ColumnApp(app_col)] = FALSE]]

\* UPDATE prompts SET {app_col} = v WHERE id = ?1
SetColumnWhere(table, app_col, id, v) ==
    [i \in DOMAIN table |->
        IF i = id THEN [table[i] EXCEPT !.apps[ColumnApp(app_col)] = v] ELSE table[i]]

\* mutant of db_toggle_prompt_app: the column is not cleared before it is set
db_toggle_prompt_app_no_clear(table, id, app_col, enabled) ==
    SetColumnWhere(table, app_col, id, enabled)

\* Database::toggle_prompt_app, the column being one of the allowed four
db_toggle_prompt_app(table, id, app_col, enabled) ==
    IF enabled
    THEN SetColumnWhere(ClearColumn(table, app_col), app_col, id, TRUE)
    ELSE SetColumnWhere(table, app_col, id, FALSE)

\* Database::toggle_prompt_app when its statement number `step` returns an
\* error: each conn.execute commits on its own, so the statements before the
\* failing one stay applied
db_toggle_prompt_app_failing(table, id, app_col, enabled, step) ==
    IF enabled /\ step = 2 THEN ClearColumn(table, app_col) ELSE table

\* prompts.values().any(|p| app_enabled(&p.apps, app))
AnyEnabled(table, app) == \E i \in DOMAIN table : app_enabled(table[i].apps, app)

-----------------------------------------------------------------------------
(* services/prompt.rs: PromptService.  Every call runs to its end in one   *)
(* step; no database or file operation fails.                              *)

\* a service call: the operation and its arguments
Call(op, id, app, enabled) == [op |-> op, id |-> id, app |-> app, enabled |-> enabled]

\* no call yet
NoCall == Call("init", <<"-", 0>>, "-", FALSE)

\* `last` once the call c has completed
After(c) == [call |-> c, before |-> last.call]

\* mutant of UpsertFile: a tool whose flag is false has its file truncated even
\* when another stored prompt is enabled for it
UpsertFile_truncating(file, all_prompts, prompt, app) ==
    IF app_enabled(prompt.apps, app)
    THEN FileWith(prompt.content)
    ELSE IF file.exists THEN FileWith(<<>>) ELSE file

\* the file of one tool after upsert_prompt's loop body for it
UpsertFile(file, all_prompts, prompt, app) ==
    IF app_enabled(prompt.apps, app)
    THEN FileWith(prompt.content)
    ELSE LET still_enabled ==
                 \E i \in DOMAIN all_prompts :
                     i # prompt.id /\ app_enabled(all_prompts[i].apps, app)
             just_saved_enabled ==
                 IF prompt.id \in DOMAIN all_prompts
                 THEN app_enabled(all_prompts[prompt.id].apps, app) ELSE FALSE
         IN  IF ~still_enabled /\ ~just_saved_enabled /\ file.exists
             THEN FileWith(<<>>) ELSE file

\* PromptService::upsert_prompt, on the state it is given
UpsertEffect(prompt) ==
    LET all_prompts == save_prompt(prompts, prompt)
    IN  /\ prompts' = all_prompts
        /\ promptFile' = [app \in Apps |-> UpsertFile(promptFile[app], all_prompts, prompt, app)]

upsert_prompt(prompt) ==
    /\ UpsertEffect(prompt)
    /\ UNCHANGED <<now, agentVars, codecVars, tasks>>

\* mutant of delete_prompt: the row is deleted and no file is touched
delete_prompt_keeping_files(id) ==
    /\ prompts' = db_delete_prompt(prompts, id)
    /\ UNCHANGED <<promptFile, now, agentVars, codecVars, tasks>>

\* PromptService::delete_prompt
delete_prompt(id) ==
    /\ prompts' = db_delete_prompt(prompts, id)
    /\ promptFile' =
           [app \in Apps |->
               IF id \in DOMAIN prompts /\ app_enabled(prompts[id].apps, app)
                  /\ promptFile[app].exists
               THEN FileWith(<<>>) ELSE promptFile[app]]
    /\ UNCHANGED <<now, agentVars, codecVars, tasks>>

\* mutant of toggle_prompt_app: the file of a tool left with no prompt is deleted
toggle_prompt_app_deleting(id, app, enabled) ==
    LET after == db_toggle_prompt_app(prompts, id, app_to_col(app), enabled)
    IN  /\ prompts' = after
        /\ promptFile' =
               IF enabled
               THEN IF id \in DOMAIN after
                    THEN [promptFile EXCEPT ![app] = FileWith(after[id].content)]
                    ELSE promptFile
               ELSE IF ~AnyEnabled(after, app) /\ promptFile[app].exists
                    THEN [promptFile EXCEPT ![app] = NoFile]
                    ELSE promptFile
        /\ UNCHANGED <<now, agentVars, codecVars, tasks>>

\* mutant of toggle_prompt_app: enabling writes the file only when it is absent
toggle_prompt_app_keeping(id, app, enabled) ==
    LET after == db_toggle_prompt_app(prompts, id, app_to_col(app), enabled)
    IN  /\ prompts' = after
        /\ promptFile' =
               IF enabled
               THEN IF id \in DOMAIN after /\ ~promptFile[app].exists
                    THEN [promptFile EXCEPT ![app] = FileWith(after[id].content)]
                    ELSE promptFile
               ELSE IF ~AnyEnabled(after, app) /\ promptFile[app].exists
                    THEN [promptFile EXCEPT ![app] = FileWith(<<>>)]
                    ELSE promptFile
        /\ UNCHANGED <<now, agentVars, codecVars, tasks>>

toggle_prompt_app(id, app, enabled) ==
    LET after == db_toggle_prompt_app(prompts, id, app_to_col(app), enabled)
    IN  /\ prompts' = after
        /\ promptFile' =
               IF enabled
               THEN IF id \in DOMAIN after
                    THEN [promptFile EXCEPT ![app] = FileWith(after[id].content)]
                    ELSE promptFile
               ELSE IF ~AnyEnabled(after, app) /\ promptFile[app].exists
                    THEN [promptFile EXCEPT ![app] = FileWith(<<>>)]
                    ELSE promptFile
        /\ UNCHANGED <<now, agentVars, codecVars, tasks>>

\* PromptService::toggle_prompt_app when the database call returns an error:
\* the `?` returns it before any file is touched
toggle_prompt_app_failing(id, app, enabled, step) ==
    /\ step \in 1..(IF enabled THEN 2 ELSE 1)
    /\ prompts' = db_toggle_prompt_app_failing(prompts, id, app_to_col(app), enabled, step)
    /\ UNCHANGED <<promptFile, now, agentVars, codecVars, tasks>>

\* the `apps` array upsert_prompt and delete_prompt loop over
PromptAppOrder == <<"claude", "codex", "gemini", "opencode">>

\* the loop position of a tool
AppIndex(app) == CHOOSE k \in 1..Len(PromptAppOrder) : PromptAppOrder[k] = app

\* the file step upsert_prompt's loop body makes for one tool: a write whose
\* error is returned with `?`, a truncation whose error is dropped by `let _ =`,
\* or none
UpsertStep(file, all_prompts, prompt, app) ==
    IF app_enabled(prompt.apps, app) THEN "write"
    ELSE LET still_enabled ==
                 \E i \in DOMAIN all_prompts :
                     i # prompt.id /\ app_enabled(all_prompts[i].apps, app)
             just_saved_enabled ==
                 IF prompt.id \in DOMAIN all_prompts
                 THEN app_enabled(all_prompts[prompt.id].apps, app) ELSE FALSE
         IN  IF ~still_enabled /\ ~just_saved_enabled /\ file.exists
             THEN "truncate" ELSE "none"

\* PromptService::upsert_prompt when the file step of tool `failed` fails: a
\* failed write returns the error and ends the loop, a failed truncation is
\* dropped and the loop goes on
upsert_prompt_file_failing(prompt, failed) ==
    LET all_prompts == save_prompt(prompts, prompt)
        step == UpsertStep(promptFile[failed], all_prompts, prompt, failed)
    IN  /\ step # "none"
        /\ prompts' = all_prompts
        /\ promptFile' =
               [app \in Apps |->
                   IF app = failed \/ (step = "write" /\ AppIndex(app) > AppIndex(failed))
                   THEN promptFile[app]
                   ELSE UpsertFile(promptFile[app], all_prompts, prompt, app)]
        /\ UNCHANGED <<now, agentVars, codecVars, tasks>>

\* what upsert_prompt returns when the file step of tool `failed` fails
upsert_prompt_file_failing_returns(prompt, failed) ==
    IF app_enabled(prompt.apps, failed) THEN "err" ELSE "ok"

\* PromptService::delete_prompt when the truncation of tool `failed` fails: the
\* error is dropped by `let _ =`
delete_prompt_file_failing(id, failed) ==
    /\ id \in DOMAIN prompts
    /\ app_enabled(prompts[id].apps, failed)
    /\ promptFile[failed].exists
    /\ prompts' = db_delete_prompt(prompts, id)
    /\ promptFile' =
           [app \in Apps |->
               IF app # failed /\ app_enabled(prompts[id].apps, app) /\ promptFile[app].exists
               THEN FileWith(<<>>) ELSE promptFile[app]]
    /\ UNCHANGED <<now, agentVars, codecVars, tasks>>

\* PromptService::toggle_prompt_app when its file step fails: the write of an
\* enable returns the error, the truncation of a disable drops it
toggle_prompt_app_file_failing(id, app, enabled) ==
    LET after == db_toggle_prompt_app(prompts, id, app_to_col(app), enabled)
    IN  /\ IF enabled THEN id \in DOMAIN after
                      ELSE ~AnyEnabled(after, app) /\ promptFile[app].exists
        /\ prompts' = after
        /\ UNCHANGED <<promptFile, now, agentVars, codecVars, tasks>>

\* what toggle_prompt_app returns when its file step fails
toggle_prompt_app_file_failing_returns(enabled) == IF enabled THEN "err" ELSE "ok"

\* get_unix_timestamp
get_unix_timestamp == now

\* Err("提示词文件不存在") / Ok(id) of import_from_file
import_from_file_returns(app) == IF ~promptFile[app].exists THEN "err" ELSE "ok"

import_from_file(app) ==
    /\ IF ~promptFile[app].exists
       THEN UNCHANGED <<prompts, promptFile>>
       ELSE LET id == <<"imported-", get_unix_timestamp>>
                prompt == Prompt(id, promptFile[app].text, PromptAppsDefault)
            IN  UpsertEffect(prompt)
    /\ UNCHANGED <<now, agentVars, codecVars, tasks>>

\* content.trim().is_empty()
TrimIsEmpty(content) == \A i \in 1..Len(content) : content[i] \in {" ", NL}

\* mutant of import_from_file_on_first_launch: a tool that already has an
\* enabled prompt is imported for all the same
import_from_file_on_first_launch_unguarded(app) ==
    LET id == <<"auto-imported-", get_unix_timestamp>>
        skip == \/ ~promptFile[app].exists
                \/ TrimIsEmpty(promptFile[app].text)
        prompt == Prompt(id, promptFile[app].text, [PromptAppsDefault EXCEPT ![app] = TRUE])
    IN  /\ prompts' = IF skip THEN prompts ELSE save_prompt(prompts, prompt)
        /\ UNCHANGED <<promptFile, now, agentVars, codecVars, tasks>>

\* Ok(0) / Ok(1) of import_from_file_on_first_launch
import_from_file_on_first_launch_returns(app) ==
    IF \/ AnyEnabled(prompts, app)
       \/ ~promptFile[app].exists
       \/ TrimIsEmpty(promptFile[app].text)
    THEN "0" ELSE "1"

import_from_file_on_first_launch(app) ==
    LET id == <<"auto-imported-", get_unix_timestamp>>
        skip == \/ AnyEnabled(prompts, app)
                \/ ~promptFile[app].exists
                \/ TrimIsEmpty(promptFile[app].text)
        prompt == Prompt(id, promptFile[app].text, [PromptAppsDefault EXCEPT ![app] = TRUE])
    IN  /\ prompts' = IF skip THEN prompts ELSE save_prompt(prompts, prompt)
        /\ UNCHANGED <<promptFile, now, agentVars, codecVars, tasks>>

\* a second of wall-clock time passes
Tick ==
    /\ now < MaxClock
    /\ now' = now + 1
    /\ UNCHANGED <<prompts, promptFile, agentVars, codecVars, tasks>>

-----------------------------------------------------------------------------
(* database/dao/agents.rs: the agent_definitions table *)

\* INSERT OR REPLACE INTO agent_definitions
save_agent(table, agent) ==
    [i \in DOMAIN table \cup {agent.id} |->
        IF i = agent.id
        THEN [name |-> agent.name, content |-> agent.content,
              description |-> agent.description, apps |-> agent.apps]
        ELSE table[i]]

\* DELETE FROM agent_definitions WHERE id = ?1
delete_agent(table, id) == [i \in DOMAIN table \ {id} |-> table[i]]

\* the Some(..) of get_agent_by_id, for a stored id
get_agent_by_id(table, id) ==
    AgentDefinition(id, table[id].name, table[id].content, table[id].description, table[id].apps)

-----------------------------------------------------------------------------
(* agents/claude.rs, opencode.rs, codex.rs, gemini.rs, mod.rs: the files.  *)
(* fs is the pair of the per-file tools' files (af) and the shared files   *)
(* (sf).                                                                   *)

build_frontmatter_md(agent) ==
    LET f1 == <<"---", NL, "name: ">> \o agent.name \o <<NL>>
        f2 == IF agent.description.some /\ agent.description.text # <<>>
              THEN f1 \o <<"description: ">> \o agent.description.text \o <<NL>>
              ELSE f1
        f3 == f2 \o <<"---", NL>> \o <<NL>> \o agent.content
    IN  IF ~EndsWith(f3, <<NL>>) THEN f3 \o <<NL>> ELSE f3

\* codex::write_agent, gemini::write_agent on the shared file
write_agent(file, agent) ==
    LET existing == IF file.exists THEN file.text ELSE <<>>
    IN  FileWith(upsert_block(existing, agent))

\* mutant of remove_agent: the shared file is written even when it was absent
remove_agent_creating(file, id) ==
    FileWith(remove_block(file.text, id))

\* codex::remove_agent, gemini::remove_agent on the shared file
remove_agent(file, id) ==
    IF ~file.exists THEN file ELSE FileWith(remove_block(file.text, id))

\* agents::sync_agent_to_app
sync_agent_to_app(fs, agent, app) ==
    IF app \in PerFileApps
    THEN [fs EXCEPT !.af[app][agent.id] = FileWith(build_frontmatter_md(agent))]
    ELSE [fs EXCEPT !.sf[app] = write_agent(fs.sf[app], agent)]

\* agents::remove_agent_from_app
remove_agent_from_app(fs, id, app) ==
    IF app \in PerFileApps
    THEN [fs EXCEPT !.af[app][id] = NoFile]
    ELSE [fs EXCEPT !.sf[app] = remove_agent(fs.sf[app], id)]

\* the order of the four tools in the service and in McpApps::enabled_apps
AppOrder == <<"claude", "codex", "gemini", "opencode">>

\* remove_agent_from_app for every tool of `which`, in AppOrder
RECURSIVE RemoveFrom(_, _, _, _)
RemoveFrom(fs, id, which, k) ==
    IF k > Len(AppOrder) THEN fs
    ELSE RemoveFrom(IF AppOrder[k] \in which THEN remove_agent_from_app(fs, id, AppOrder[k]) ELSE fs,
                    id, which, k + 1)

\* AgentsService::sync_agent_to_apps
RECURSIVE sync_agent_to_apps(_, _, _)
sync_agent_to_apps(fs, agent, k) ==
    IF k > Len(AppOrder) THEN fs
    ELSE sync_agent_to_apps(IF agent.apps[AppOrder[k]] THEN sync_agent_to_app(fs, agent, AppOrder[k]) ELSE fs,
                            agent, k + 1)

-----------------------------------------------------------------------------
(* services/agents.rs: AgentsService.  Every call runs to its end in one   *)
(* step; no database or file operation fails.                              *)

Fs == [af |-> agentFile, sf |-> sharedFile]

\* the files a call leaves; a shared file longer than MaxFileLen is out of the model
SetFs(fs) ==
    /\ \A app \in SharedApps : Len(fs.sf[app].text) <= MaxFileLen
    /\ agentFile' = fs.af
    /\ sharedFile' = fs.sf

upsert(agent) ==
    LET prev_apps == IF agent.id \in DOMAIN agents THEN agents[agent.id].apps ELSE NoApps
        disabled == {app \in Apps : prev_apps[app] /\ ~agent.apps[app]}
        removed == RemoveFrom(Fs, agent.id, disabled, 1)
    IN  /\ agents' = save_agent(agents, agent)
        /\ SetFs(sync_agent_to_apps(removed, agent, 1))
        /\ UNCHANGED <<promptVars, codecVars, tasks>>

delete(id) ==
    /\ IF id \in DOMAIN agents
       THEN /\ agents' = delete_agent(agents, id)
            /\ SetFs(RemoveFrom(Fs, id, {app \in Apps : agents[id].apps[app]}, 1))
       ELSE UNCHANGED agentVars
    /\ UNCHANGED <<promptVars, codecVars, tasks>>

\* mutant of toggle_app: an id that is not stored has its projection removed
toggle_app_removing(agent_id, app, enabled) ==
    /\ IF agent_id \in DOMAIN agents
       THEN LET found == get_agent_by_id(agents, agent_id)
                agent == [found EXCEPT !.apps[app] = enabled]
            IN  /\ agents' = save_agent(agents, agent)
                /\ SetFs(IF enabled THEN sync_agent_to_app(Fs, agent, app)
                         ELSE remove_agent_from_app(Fs, agent_id, app))
       ELSE /\ agents' = agents
            /\ SetFs([Fs EXCEPT !.af = [t \in PerFileApps |-> [i \in AgentIds |-> NoFile]]])
    /\ UNCHANGED <<promptVars, codecVars, tasks>>

\* mutant of toggle_app: the definition is synced to, or removed from, every
\* tool its flags name, as an upsert does
toggle_app_resyncing(agent_id, app, enabled) ==
    /\ IF agent_id \in DOMAIN agents
       THEN LET found == get_agent_by_id(agents, agent_id)
                agent == [found EXCEPT !.apps[app] = enabled]
            IN  /\ agents' = save_agent(agents, agent)
                /\ SetFs(sync_agent_to_apps(
                             RemoveFrom(Fs, agent_id, {t \in Apps : ~agent.apps[t]}, 1), agent, 1))
       ELSE UNCHANGED agentVars
    /\ UNCHANGED <<promptVars, codecVars, tasks>>

toggle_app(agent_id, app, enabled) ==
    /\ IF agent_id \in DOMAIN agents
       THEN LET found == get_agent_by_id(agents, agent_id)
                agent == [found EXCEPT !.apps[app] = enabled]
            IN  /\ agents' = save_agent(agents, agent)
                /\ SetFs(IF enabled THEN sync_agent_to_app(Fs, agent, app)
                         ELSE remove_agent_from_app(Fs, agent_id, app))
       ELSE UNCHANGED agentVars
    /\ UNCHANGED <<promptVars, codecVars, tasks>>

-----------------------------------------------------------------------------
(* services/agents.rs: the Dispatcher calls of a service call, in the order *)
(* the code makes them, and the service calls in which one of them fails.   *)
(* A Dispatcher call that fails leaves its file as it was; the `?` after it *)
(* returns the error at once.                                               *)

\* agents::sync_agent_to_app(agent, app) or agents::remove_agent_from_app(id, app)
DispatcherCall(kind, id, app) == [kind |-> kind, id |-> id, app |-> app]

\* one Dispatcher call of `kind` for every tool of `which`, in AppOrder from k on
RECURSIVE CallsFor(_, _, _, _)
CallsFor(kind, id, which, k) ==
    IF k > Len(AppOrder) THEN <<>>
    ELSE (IF AppOrder[k] \in which
          THEN <<DispatcherCall(kind, id, AppOrder[k])>> ELSE <<>>)
             \o CallsFor(kind, id, which, k + 1)

\* the flags of the stored row, McpApps::default() when there is none
prev_apps_of(id) == IF id \in DOMAIN agents THEN agents[id].apps ELSE NoApps

\* mutant of upsert_calls: the syncs are made before the removes
upsert_calls_sync_first(agent) ==
    CallsFor("sync", agent.id, {app \in Apps : agent.apps[app]}, 1)
        \o CallsFor("remove", agent.id,
                    {app \in Apps : prev_apps_of(agent.id)[app] /\ ~agent.apps[app]}, 1)

\* AgentsService::upsert: the four `if prev && !new` removes, then sync_agent_to_apps
upsert_calls(agent) ==
    CallsFor("remove", agent.id,
             {app \in Apps : prev_apps_of(agent.id)[app] /\ ~agent.apps[app]}, 1)
        \o CallsFor("sync", agent.id, {app \in Apps : agent.apps[app]}, 1)

\* AgentsService::delete: a remove for every tool of agent.apps.enabled_apps()
delete_calls(id) ==
    IF id \in DOMAIN agents
    THEN CallsFor("remove", id, {app \in Apps : agents[id].apps[app]}, 1)
    ELSE <<>>

\* AgentsService::toggle_app: one sync or one remove, none for an id not stored
toggle_app_calls(agent_id, app, enabled) ==
    IF agent_id \in DOMAIN agents
    THEN <<DispatcherCall(IF enabled THEN "sync" ELSE "remove", agent_id, app)>>
    ELSE <<>>

\* the tools of the calls of `kind` among cs
ToolsOf(cs, kind) == {cs[i].app : i \in {j \in 1..Len(cs) : cs[j].kind = kind}}

\* the files after the Dispatcher calls cs, all of one agent, have run
FilesAfter(cs, agent) ==
    sync_agent_to_apps(RemoveFrom(Fs, agent.id, ToolsOf(cs, "remove"), 1),
                       [agent EXCEPT !.apps = [app \in Apps |-> app \in ToolsOf(cs, "sync")]], 1)

\* mutant of upsert_failing: the store write is undone when a Dispatcher call fails
upsert_failing_rolled_back(agent, fail) ==
    /\ fail \in 1..Len(upsert_calls(agent))
    /\ agents' = agents
    /\ SetFs(FilesAfter(SubSeq(upsert_calls(agent), 1, fail - 1), agent))
    /\ UNCHANGED <<promptVars, codecVars, tasks>>

\* AgentsService::upsert whose Dispatcher call number `fail` returns an error
upsert_failing(agent, fail) ==
    /\ fail \in 1..Len(upsert_calls(agent))
    /\ agents' = save_agent(agents, agent)
    /\ SetFs(FilesAfter(SubSeq(upsert_calls(agent), 1, fail - 1), agent))
    /\ UNCHANGED <<promptVars, codecVars, tasks>>

\* AgentsService::delete whose Dispatcher call number `fail` returns an error
delete_failing(id, fail) ==
    /\ fail \in 1..Len(delete_calls(id))
    /\ agents' = delete_agent(agents, id)
    /\ SetFs(FilesAfter(SubSeq(delete_calls(id), 1, fail - 1), get_agent_by_id(agents, id)))
    /\ UNCHANGED <<promptVars, codecVars, tasks>>

\* AgentsService::toggle_app whose Dispatcher call returns an error
toggle_app_failing(agent_id, app, enabled) ==
    /\ agent_id \in DOMAIN agents
    /\ agents' = save_agent(agents, [get_agent_by_id(agents, agent_id) EXCEPT !.apps[app] = enabled])
    /\ UNCHANGED <<agentFile, sharedFile, promptVars, codecVars, tasks>>

\* mutant of delete_returns: Ok(true) whether or not a row was found
delete_returns_true(id) == "true"

\* Ok(true) / Ok(false) of AgentsService::delete
delete_returns(id) == IF id \in DOMAIN agents THEN "true" ELSE "false"

\* an AgentsService call, its arguments and what it returned
AgentCall(op, id, app, enabled, ret) ==
    [op |-> op, id |-> id, app |-> app, enabled |-> enabled, ret |-> ret]

\* no AgentsService call yet
NoAgentCall == AgentCall("init", "-", "-", FALSE, "ok")

-----------------------------------------------------------------------------
(* services/agents.rs, agents/codex.rs, gemini.rs: toggle_app run as a task, *)
(* one step for each use of the store and each use of a file.  The store is *)
(* locked for the length of one DAO method; the files are not locked.       *)

\* a running toggle_app: its arguments, the definition it read from the store
\* and the file content write_agent or remove_agent read
AgentTask(pc, agent_id, app, enabled, found, agent, existing) ==
    [pc |-> pc, op |-> "toggle_app", id |-> agent_id, app |-> app, enabled |-> enabled,
     found |-> found, agent |-> agent, existing |-> existing]

\* state.db.get_agent_by_id(agent_id)?; None returns Ok(())
toggle_app_get(t, agent_id, app, enabled) ==
    /\ tasks[t].pc = "idle"
    /\ tasks' = [tasks EXCEPT ![t] =
           IF agent_id \in DOMAIN agents
           THEN AgentTask("save_agent", agent_id, app, enabled, TRUE,
                          get_agent_by_id(agents, agent_id), NoFile)
           ELSE AgentTask("done", agent_id, app, enabled, FALSE,
                          AgentDefinition(agent_id, <<>>, <<>>, NoDescription, NoApps), NoFile)]
    /\ UNCHANGED <<agentVars, promptVars, codecVars>>

\* agent.apps.set_enabled_for(&app, enabled); state.db.save_agent(&agent)?
toggle_app_save(t) ==
    LET task == tasks[t]
        agent == [task.agent EXCEPT !.apps[task.app] = task.enabled]
    IN  /\ task.pc = "save_agent"
        /\ agents' = save_agent(agents, agent)
        /\ tasks' = [tasks EXCEPT ![t].agent = agent,
                                  ![t].pc = IF task.app \in PerFileApps THEN "file" ELSE "read"]
        /\ UNCHANGED <<agentFile, sharedFile, promptVars, codecVars>>

\* the Dispatcher call for a per-file tool: one write or one removal of the
\* agent's own file
toggle_app_file(t) ==
    LET task == tasks[t]
        fs == IF task.enabled THEN sync_agent_to_app(Fs, task.agent, task.app)
              ELSE remove_agent_from_app(Fs, task.id, task.app)
    IN  /\ task.pc = "file"
        /\ agentFile' = fs.af
        /\ tasks' = [tasks EXCEPT ![t].pc = "done"]
        /\ UNCHANGED <<agents, sharedFile, promptVars, codecVars>>

\* write_agent, remove_agent: path.exists() and read_to_string; remove_agent
\* returns Ok(()) when the file is absent
toggle_app_read(t) ==
    LET task == tasks[t]
    IN  /\ task.pc = "read"
        /\ tasks' = [tasks EXCEPT ![t].existing = sharedFile[task.app],
                                  ![t].pc = IF ~task.enabled /\ ~sharedFile[task.app].exists
                                            THEN "done" ELSE "write"]
        /\ UNCHANGED <<agentVars, promptVars, codecVars>>

\* write_agent, remove_agent: write_text_file of the text computed from what
\* was read
toggle_app_write(t) ==
    LET task == tasks[t]
    IN  /\ task.pc = "write"
        /\ sharedFile' = [sharedFile EXCEPT ![task.app] =
               IF task.enabled THEN write_agent(task.existing, task.agent)
               ELSE remove_agent(task.existing, task.id)]
        /\ tasks' = [tasks EXCEPT ![t].pc = "done"]
        /\ UNCHANGED <<agents, agentFile, promptVars, codecVars>>

-----------------------------------------------------------------------------
(* services/prompt.rs: toggle_prompt_app run as a task, one step for each   *)
(* use of the store and of the file.  Database::toggle_prompt_app holds the *)
(* store lock for both of its statements; the file is not locked.           *)

\* a running toggle_prompt_app: its arguments and the table get_prompts returned
PromptTask(pc, id, app, enabled, read) ==
    [pc |-> pc, op |-> "toggle_prompt_app", id |-> id, app |-> app, enabled |-> enabled,
     read |-> read]

\* state.db.toggle_prompt_app(id, col, enabled)?
toggle_prompt_app_update(t, id, app, enabled) ==
    /\ tasks[t].pc = "idle"
    /\ prompts' = db_toggle_prompt_app(prompts, id, app_to_col(app), enabled)
    /\ tasks' = [tasks EXCEPT ![t] = PromptTask("get_prompts", id, app, enabled, EmptyTable)]
    /\ UNCHANGED <<promptFile, now, agentVars, codecVars>>

\* state.db.get_prompts()?, then prompts.get(id) or any_enabled: the call
\* returns when there is nothing to write
toggle_prompt_app_get(t) ==
    LET task == tasks[t]
        writes == IF task.enabled THEN task.id \in DOMAIN prompts
                  ELSE ~AnyEnabled(prompts, task.app)
    IN  /\ task.pc = "get_prompts"
        /\ tasks' = [tasks EXCEPT ![t].read = prompts,
                                  ![t].pc = IF writes THEN "write" ELSE "done"]
        /\ UNCHANGED <<promptVars, agentVars, codecVars>>

\* sync_app_file(&app, Some(&prompt.content))?, or the truncation of a file
\* that exists
toggle_prompt_app_write(t) ==
    LET task == tasks[t]
    IN  /\ task.pc = "write"
        /\ promptFile' =
               IF task.enabled
               THEN [promptFile EXCEPT ![task.app] = FileWith(task.read[task.id].content)]
               ELSE IF promptFile[task.app].exists
                    THEN [promptFile EXCEPT ![task.app] = FileWith(<<>>)]
                    ELSE promptFile
        /\ tasks' = [tasks EXCEPT ![t].pc = "done"]
        /\ UNCHANGED <<prompts, now, agentVars, codecVars>>

-----------------------------------------------------------------------------
(* Specifications *)

IdlePrompts ==
    /\ prompts = EmptyTable
    /\ promptFile = [app \in Apps |-> NoFile]
    /\ now = 0

IdleAgents ==
    /\ agents = EmptyTable
    /\ agentFile = [app \in PerFileApps |-> [id \in AgentIds |-> NoFile]]
    /\ sharedFile = [app \in SharedApps |-> NoFile]

IdleCodec ==
    /\ cIn = <<>>
    /\ cOps = <<>>
    /\ cOut = <<>>

\* --- the codec alone
SpecCodecInit ==
    /\ InitCodec
    /\ IdlePrompts
    /\ IdleAgents
    /\ last = [call |-> NoCall, before |-> NoCall]
    /\ calls = <<>>
    /\ tasks = NoTasks

SpecCodecNext ==
    \/ \E agent \in CodecDefs : CodecUpsert(agent) /\ UNCHANGED history
    \/ \E id \in AgentIds : CodecRemove(id) /\ UNCHANGED history

SpecCodec == SpecCodecInit /\ [][SpecCodecNext]_vars

\* --- the codec on files of several blocks
SpecBlocksInit ==
    /\ InitBlocks
    /\ IdlePrompts
    /\ IdleAgents
    /\ last = [call |-> NoCall, before |-> NoCall]
    /\ calls = <<>>
    /\ tasks = NoTasks

SpecBlocksNext ==
    \/ \E agent \in BlockDefs : BlocksUpsert(agent) /\ UNCHANGED history
    \/ \E id \in BlockIds : BlocksRemove(id) /\ UNCHANGED history

SpecBlocks == SpecBlocksInit /\ [][SpecBlocksNext]_vars

\* --- PromptService: upsert_prompt, toggle_prompt_app, delete_prompt
PromptInputApps == {"claude", "codex"}

PromptUserIds == {<<"p", 1>>, <<"p", 2>>}

PromptContents == {<<"c1">>, <<"c2">>}

\* text found in a tool's prompt file before the program first runs
HumanPrompt == <<"h">>

PromptFlagInputs == {f \in [Apps -> BOOLEAN] : \A app \in Apps \ PromptInputApps : ~f[app]}

PromptInputs == {Prompt(id, c, f) : id \in PromptUserIds, c \in PromptContents, f \in PromptFlagInputs}

InitPromptFiles ==
    /\ promptFile \in [Apps -> {NoFile, FileWith(HumanPrompt)}]
    /\ \A app \in Apps \ PromptInputApps : promptFile[app] = NoFile

SpecPromptInit ==
    /\ prompts = EmptyTable
    /\ InitPromptFiles
    /\ now = 0
    /\ IdleAgents
    /\ IdleCodec
    /\ last = [call |-> NoCall, before |-> NoCall]
    /\ calls = <<>>
    /\ tasks = NoTasks

SpecPromptNext ==
    \/ \E prompt \in PromptInputs :
           /\ upsert_prompt(prompt)
           /\ last' = After(Call("upsert_prompt", prompt.id, "-", FALSE))
           /\ UNCHANGED calls
    \/ \E id \in PromptUserIds, app \in PromptInputApps, enabled \in BOOLEAN :
           /\ toggle_prompt_app(id, app, enabled)
           /\ last' = After(Call("toggle_prompt_app", id, app, enabled))
           /\ UNCHANGED calls
    \/ \E id \in PromptUserIds :
           /\ delete_prompt(id)
           /\ last' = After(Call("delete_prompt", id, "-", FALSE))
           /\ UNCHANGED calls

SpecPrompt == SpecPromptInit /\ [][SpecPromptNext]_vars

\* --- PromptService with database errors in toggle_prompt_app
PromptCall(op, id, app, enabled, ret) ==
    [op |-> op, id |-> id, app |-> app, enabled |-> enabled, ret |-> ret]

AfterPrompt(op, id, app, enabled, ret) ==
    [call |-> PromptCall(op, id, app, enabled, ret), before |-> last.call]

SpecPromptFailingNext ==
    \/ \E prompt \in PromptInputs :
           /\ upsert_prompt(prompt)
           /\ last' = AfterPrompt("upsert_prompt", prompt.id, "-", FALSE, "ok")
           /\ UNCHANGED calls
    \/ \E id \in PromptUserIds, app \in PromptInputApps, enabled \in BOOLEAN :
           /\ toggle_prompt_app(id, app, enabled)
           /\ last' = AfterPrompt("toggle_prompt_app", id, app, enabled, "ok")
           /\ UNCHANGED calls
    \/ \E id \in PromptUserIds, app \in PromptInputApps, enabled \in BOOLEAN, step \in 1..2 :
           /\ toggle_prompt_app_failing(id, app, enabled, step)
           /\ last' = AfterPrompt("toggle_prompt_app", id, app, enabled, "err")
           /\ UNCHANGED calls
    \/ \E id \in PromptUserIds :
           /\ delete_prompt(id)
           /\ last' = AfterPrompt("delete_prompt", id, "-", FALSE, "ok")
           /\ UNCHANGED calls

SpecPromptFailing == SpecPromptInit /\ [][SpecPromptFailingNext]_vars

\* --- PromptService with failing file steps; `calls` holds the file step that
\* failed in the last call
FileStep(kind, app) == [kind |-> kind, app |-> app]

\* the call is recorded, the one before it is not
JustPrompt(op, id, app, enabled, ret) ==
    [call |-> PromptCall(op, id, app, enabled, ret), before |-> NoCall]

SpecPromptFilesNext ==
    \/ \E prompt \in PromptInputs :
           /\ upsert_prompt(prompt)
           /\ last' = JustPrompt("upsert_prompt", prompt.id, "-", FALSE, "ok")
           /\ calls' = <<>>
    \/ \E prompt \in PromptInputs, failed \in PromptInputApps :
           /\ upsert_prompt_file_failing(prompt, failed)
           /\ last' = JustPrompt("upsert_prompt", prompt.id, "-", FALSE,
                                  upsert_prompt_file_failing_returns(prompt, failed))
           /\ calls' = <<FileStep(UpsertStep(promptFile[failed], save_prompt(prompts, prompt),
                                             prompt, failed), failed)>>
    \/ \E id \in PromptUserIds, app \in PromptInputApps, enabled \in BOOLEAN :
           /\ toggle_prompt_app(id, app, enabled)
           /\ last' = JustPrompt("toggle_prompt_app", id, app, enabled, "ok")
           /\ calls' = <<>>
    \/ \E id \in PromptUserIds, app \in PromptInputApps, enabled \in BOOLEAN :
           /\ toggle_prompt_app_file_failing(id, app, enabled)
           /\ last' = JustPrompt("toggle_prompt_app", id, app, enabled,
                                  toggle_prompt_app_file_failing_returns(enabled))
           /\ calls' = <<FileStep(IF enabled THEN "write" ELSE "truncate", app)>>
    \/ \E id \in PromptUserIds :
           /\ delete_prompt(id)
           /\ last' = JustPrompt("delete_prompt", id, "-", FALSE, "ok")
           /\ calls' = <<>>
    \/ \E id \in PromptUserIds, failed \in PromptInputApps :
           /\ delete_prompt_file_failing(id, failed)
           /\ last' = JustPrompt("delete_prompt", id, "-", FALSE, "ok")
           /\ calls' = <<FileStep("truncate", failed)>>

SpecPromptFiles == SpecPromptInit /\ [][SpecPromptFilesNext]_vars

\* --- PromptService with the two imports and the clock
AllPromptInputs == {Prompt(<<"p", 1>>, <<"c1">>, f) : f \in PromptFlagInputs}

AllPromptIds ==
    {<<"p", 1>>} \cup {<<"imported-", t>> : t \in 0..MaxClock}
                 \cup {<<"auto-imported-", t>> : t \in 0..MaxClock}

SpecPromptAllNext ==
    \/ \E prompt \in AllPromptInputs : upsert_prompt(prompt) /\ UNCHANGED history
    \/ \E id \in AllPromptIds, app \in PromptInputApps, enabled \in BOOLEAN :
           toggle_prompt_app(id, app, enabled) /\ UNCHANGED history
    \/ \E id \in AllPromptIds : delete_prompt(id) /\ UNCHANGED history
    \/ \E app \in PromptInputApps : import_from_file(app) /\ UNCHANGED history
    \/ \E app \in PromptInputApps : import_from_file_on_first_launch(app) /\ UNCHANGED history
    \/ Tick /\ UNCHANGED history

SpecPromptAll == SpecPromptInit /\ [][SpecPromptAllNext]_vars

\* --- PromptService with the first-launch import and the clock, the last call
\* recorded with what it returned
SpecImportNext ==
    \/ \E prompt \in AllPromptInputs :
           /\ upsert_prompt(prompt)
           /\ last' = JustPrompt("upsert_prompt", prompt.id, "-", FALSE, "ok")
           /\ UNCHANGED calls
    \/ \E id \in {<<"p", 1>>} \cup {<<"auto-imported-", t>> : t \in 0..MaxClock},
          app \in PromptInputApps, enabled \in BOOLEAN :
           /\ toggle_prompt_app(id, app, enabled)
           /\ last' = JustPrompt("toggle_prompt_app", id, app, enabled, "ok")
           /\ UNCHANGED calls
    \/ \E id \in {<<"p", 1>>} \cup {<<"auto-imported-", t>> : t \in 0..MaxClock} :
           /\ delete_prompt(id)
           /\ last' = JustPrompt("delete_prompt", id, "-", FALSE, "ok")
           /\ UNCHANGED calls
    \/ \E app \in PromptInputApps :
           /\ import_from_file_on_first_launch(app)
           /\ last' = JustPrompt("import_from_file_on_first_launch", <<"-", 0>>, app, FALSE,
                                 import_from_file_on_first_launch_returns(app))
           /\ UNCHANGED calls
    \/ Tick /\ UNCHANGED history

SpecImport == SpecPromptInit /\ [][SpecImportNext]_vars

\* --- PromptService with import_from_file and the clock, the last call
\* recorded with what it returned
ImportedIds == {<<"p", 1>>} \cup {<<"imported-", t>> : t \in 0..MaxClock}

SpecImportFileNext ==
    \/ \E prompt \in AllPromptInputs :
           /\ upsert_prompt(prompt)
           /\ last' = JustPrompt("upsert_prompt", prompt.id, "-", FALSE, "ok")
           /\ UNCHANGED calls
    \/ \E id \in ImportedIds, app \in PromptInputApps, enabled \in BOOLEAN :
           /\ toggle_prompt_app(id, app, enabled)
           /\ last' = JustPrompt("toggle_prompt_app", id, app, enabled, "ok")
           /\ UNCHANGED calls
    \/ \E id \in ImportedIds :
           /\ delete_prompt(id)
           /\ last' = JustPrompt("delete_prompt", id, "-", FALSE, "ok")
           /\ UNCHANGED calls
    \/ \E app \in PromptInputApps :
           /\ import_from_file(app)
           /\ last' = JustPrompt("import_from_file", <<"imported-", get_unix_timestamp>>, app,
                                 FALSE, import_from_file_returns(app))
           /\ UNCHANGED calls
    \/ Tick /\ UNCHANGED history

SpecImportFile == SpecPromptInit /\ [][SpecImportFileNext]_vars

\* --- AgentsService
\* agent a is edited and enabled for every tool; agent b shares one shared file
\* and one agents directory with it
AgentApps(id) == IF id = "a" THEN Apps ELSE {"codex", "opencode"}

AgentContents(id) == IF id = "a" THEN {<<"c1">>, <<"c2">>} ELSE {<<"c1">>, end_marker("a")}

AgentFlagInputs(id) == {f \in [Apps -> BOOLEAN] : \A app \in Apps \ AgentApps(id) : ~f[app]}

AgentInputs ==
    {AgentDefinition(id, <<"N">>, c, NoDescription, f) :
        id \in AgentIds, c \in AgentContents("a") \cup AgentContents("b"), f \in [Apps -> BOOLEAN]}

\* text a user keeps in a shared file
HumanText == <<"x">>

SpecAgentsInit ==
    /\ agents = EmptyTable
    /\ agentFile = [app \in PerFileApps |-> [id \in AgentIds |-> NoFile]]
    /\ sharedFile \in [SharedApps -> {NoFile, FileWith(HumanText)}]
    /\ IdlePrompts
    /\ IdleCodec
    /\ last = [call |-> NoCall, before |-> NoCall]
    /\ calls = <<>>
    /\ tasks = NoTasks

SpecAgentsNext ==
    \/ \E agent \in AgentInputs :
           /\ agent.content \in AgentContents(agent.id)
           /\ agent.apps \in AgentFlagInputs(agent.id)
           /\ upsert(agent)
           /\ UNCHANGED history
    \/ \E id \in AgentIds, app \in Apps, enabled \in BOOLEAN :
           /\ app \in AgentApps(id)
           /\ toggle_app(id, app, enabled)
           /\ UNCHANGED history
    \/ \E id \in AgentIds : delete(id) /\ UNCHANGED history

SpecAgents == SpecAgentsInit /\ [][SpecAgentsNext]_vars

\* --- AgentsService with failing Dispatcher calls, its calls and results recorded
\* agent a is stored and edited, for one per-file tool and one shared-file
\* tool; agent b is never stored
CallApps == {"claude", "codex"}

CallFlagInputs == {f \in [Apps -> BOOLEAN] : \A app \in Apps \ CallApps : ~f[app]}

CallInputs == {AgentDefinition("a", <<"N">>, <<"c1">>, NoDescription, f) : f \in CallFlagInputs}

\* `last` once an AgentsService call has returned
AfterAgent(op, id, app, enabled, ret) ==
    [call |-> AgentCall(op, id, app, enabled, ret), before |-> last.call]

SpecAgentsCallsInit ==
    /\ agents = EmptyTable
    /\ agentFile = [app \in PerFileApps |-> [id \in AgentIds |-> NoFile]]
    /\ sharedFile \in [SharedApps -> {NoFile, FileWith(HumanText)}]
    /\ sharedFile["gemini"] = NoFile
    /\ IdlePrompts
    /\ IdleCodec
    /\ last = [call |-> NoAgentCall, before |-> NoAgentCall]
    /\ calls = <<>>
    /\ tasks = NoTasks

SpecAgentsCallsNext ==
    \/ \E agent \in CallInputs :
           /\ upsert(agent)
           /\ last' = AfterAgent("upsert", agent.id, "-", FALSE, "ok")
           /\ calls' = upsert_calls(agent)
    \/ \E agent \in CallInputs, fail \in 1..Len(AppOrder) :
           /\ upsert_failing(agent, fail)
           /\ last' = AfterAgent("upsert", agent.id, "-", FALSE, "err")
           /\ calls' = SubSeq(upsert_calls(agent), 1, fail)
    \/ \E id \in AgentIds :
           /\ delete(id)
           /\ last' = AfterAgent("delete", id, "-", FALSE, delete_returns(id))
           /\ calls' = delete_calls(id)
    \/ \E id \in AgentIds, fail \in 1..Len(AppOrder) :
           /\ delete_failing(id, fail)
           /\ last' = AfterAgent("delete", id, "-", FALSE, "err")
           /\ calls' = SubSeq(delete_calls(id), 1, fail)
    \/ \E id \in AgentIds, app \in CallApps, enabled \in BOOLEAN :
           /\ toggle_app(id, app, enabled)
           /\ last' = AfterAgent("toggle_app", id, app, enabled, "ok")
           /\ calls' = toggle_app_calls(id, app, enabled)
    \/ \E id \in AgentIds, app \in CallApps, enabled \in BOOLEAN :
           /\ toggle_app_failing(id, app, enabled)
           /\ last' = AfterAgent("toggle_app", id, app, enabled, "err")
           /\ calls' = toggle_app_calls(id, app, enabled)

SpecAgentsCalls == SpecAgentsCallsInit /\ [][SpecAgentsCallsNext]_vars

\* --- AgentsService on two stored agents, the last call recorded
\* a and b are enabled for one per-file tool and one shared-file tool; b's
\* content may hold a marker of a
PairContents(id) == IF id = "a" THEN {<<"c1">>} ELSE {<<"c1">>, end_marker("a")}

PairInputs ==
    {AgentDefinition(id, <<"N">>, c, NoDescription, f) :
        id \in AgentIds, c \in PairContents("a") \cup PairContents("b"), f \in CallFlagInputs}

\* `last` holds the call that has just returned and not the one before it
JustAgent(op, id, app, enabled) ==
    [call |-> AgentCall(op, id, app, enabled, "ok"), before |-> NoAgentCall]

SpecAgentsPairNext ==
    \/ \E agent \in PairInputs :
           /\ agent.content \in PairContents(agent.id)
           /\ upsert(agent)
           /\ last' = JustAgent("upsert", agent.id, "-", FALSE)
           /\ UNCHANGED calls
    \/ \E id \in AgentIds, app \in CallApps, enabled \in BOOLEAN :
           /\ toggle_app(id, app, enabled)
           /\ last' = JustAgent("toggle_app", id, app, enabled)
           /\ UNCHANGED calls
    \/ \E id \in AgentIds :
           /\ delete(id)
           /\ last' = JustAgent("delete", id, "-", FALSE)
           /\ UNCHANGED calls

SpecAgentsPair == SpecAgentsCallsInit /\ [][SpecAgentsPairNext]_vars

\* --- AgentsService on the shared files alone, each call recorded with the
\* shared files it started from
\* the Codex file before the first call: absent, empty, or a user's text that
\* ends with no newline, with one, or with two; the Gemini file is absent
RoundTripFiles ==
    {NoFile, FileWith(<<>>), FileWith(<<"x">>), FileWith(<<"x", NL>>),
     FileWith(<<NL>>), FileWith(<<"x", NL, NL>>)}

\* a's content may hold the end marker of a; a is enabled for both shared-file
\* tools, b for Codex; a definition is saved with no tool enabled and enabled
\* by toggle_app
RoundTripContents(id) == IF id = "a" THEN {<<"c1">>, end_marker("a")} ELSE {<<"c1">>}

RoundTripApps(id) == IF id = "a" THEN SharedApps ELSE {"codex"}

RoundTripFlagInputs == {NoApps}

RoundTripInputs ==
    {AgentDefinition(id, <<"N">>, c, NoDescription, f) :
        id \in AgentIds, c \in RoundTripContents("a"), f \in RoundTripFlagInputs}

\* `last` holds the call that has just returned and the shared files as they
\* were when it was made
AgentCallOn(op, id, app, enabled) ==
    [call |-> AgentCall(op, id, app, enabled, "ok"), before |-> NoAgentCall, was |-> sharedFile]

SpecRoundTripInit ==
    /\ agents = EmptyTable
    /\ agentFile = [app \in PerFileApps |-> [id \in AgentIds |-> NoFile]]
    /\ sharedFile \in [SharedApps -> RoundTripFiles]
    /\ sharedFile["gemini"] = NoFile
    /\ IdlePrompts
    /\ IdleCodec
    /\ last = [call |-> NoAgentCall, before |-> NoAgentCall, was |-> sharedFile]
    /\ calls = <<>>
    /\ tasks = NoTasks

SpecRoundTripNext ==
    \/ \E agent \in RoundTripInputs :
           /\ agent.content \in RoundTripContents(agent.id)
           /\ upsert(agent)
           /\ last' = AgentCallOn("upsert", agent.id, "-", FALSE)
           /\ UNCHANGED calls
    \/ \E id \in AgentIds, app \in SharedApps, enabled \in BOOLEAN :
           /\ app \in RoundTripApps(id)
           /\ toggle_app(id, app, enabled)
           /\ last' = AgentCallOn("toggle_app", id, app, enabled)
           /\ UNCHANGED calls
    \/ \E id \in AgentIds :
           /\ delete(id)
           /\ last' = AgentCallOn("delete", id, "-", FALSE)
           /\ UNCHANGED calls

SpecRoundTrip == SpecRoundTripInit /\ [][SpecRoundTripNext]_vars

\* --- AgentsService::toggle_app, two calls side by side
\* a and b are stored, each enabled or not for Codex, and the files are as
\* the calls that stored them left them
ConcFlagInputs == {f \in [Apps -> BOOLEAN] : \A app \in Apps \ {"codex"} : ~f[app]}

ConcAgents ==
    {[id \in AgentIds |-> AgentDefinition(id, <<"N">>, <<"c1">>, NoDescription, f[id])] :
        f \in [AgentIds -> ConcFlagInputs]}

\* the rows of the definitions ds
ConcTable(ds) == save_agent(save_agent(EmptyTable, ds["a"]), ds["b"])

\* the files after AgentsService::upsert of a and then of b on the files fs
ConcFiles(fs, ds) == sync_agent_to_apps(sync_agent_to_apps(fs, ds["a"], 1), ds["b"], 1)

SpecAgentsConcInit ==
    /\ \E ds \in ConcAgents, human \in {NoFile, FileWith(HumanText)} :
           LET fs == ConcFiles([af |-> [app \in PerFileApps |-> [id \in AgentIds |-> NoFile]],
                                sf |-> [app \in SharedApps |->
                                           IF app = "codex" THEN human ELSE NoFile]], ds)
           IN  /\ agents = ConcTable(ds)
               /\ agentFile = fs.af
               /\ sharedFile = fs.sf
    /\ IdlePrompts
    /\ IdleCodec
    /\ last = [call |-> NoAgentCall, before |-> NoAgentCall]
    /\ calls = <<>>
    /\ tasks = NoTasks

ConcApps == {"claude", "codex", "gemini"}

SpecAgentsConcNext ==
    \/ \E t \in Tasks, id \in AgentIds, app \in ConcApps, enabled \in BOOLEAN :
           toggle_app_get(t, id, app, enabled) /\ UNCHANGED history
    \/ \E t \in Tasks : toggle_app_save(t) /\ UNCHANGED history
    \/ \E t \in Tasks : toggle_app_file(t) /\ UNCHANGED history
    \/ \E t \in Tasks : toggle_app_read(t) /\ UNCHANGED history
    \/ \E t \in Tasks : toggle_app_write(t) /\ UNCHANGED history

SpecAgentsConc == SpecAgentsConcInit /\ [][SpecAgentsConcNext]_vars

\* --- PromptService::toggle_prompt_app, two calls side by side
\* p1 and p2 are stored; for each tool at most one of them is enabled, and the
\* tool's file holds its content, or is absent or empty when none is
ConcEnabled == [PromptInputApps -> PromptUserIds \cup {<<"-", 0>>}]

ConcContent(id) == IF id = <<"p", 1>> THEN <<"c1">> ELSE <<"c2">>

ConcPrompts(on) ==
    [id \in PromptUserIds |->
        [content |-> ConcContent(id),
         apps |-> [app \in Apps |-> app \in PromptInputApps /\ on[app] = id]]]

SpecPromptConcInit ==
    /\ \E on \in ConcEnabled :
           /\ prompts = ConcPrompts(on)
           /\ promptFile \in [Apps -> {NoFile, FileWith(<<>>), FileWith(<<"c1">>), FileWith(<<"c2">>)}]
           /\ \A app \in Apps \ PromptInputApps : promptFile[app] = NoFile
           /\ \A app \in PromptInputApps :
                  IF on[app] \in PromptUserIds
                  THEN promptFile[app] = FileWith(ConcContent(on[app]))
                  ELSE promptFile[app] \in {NoFile, FileWith(<<>>)}
    /\ now = 0
    /\ IdleAgents
    /\ IdleCodec
    /\ last = [call |-> NoCall, before |-> NoCall]
    /\ calls = <<>>
    /\ tasks = NoTasks

SpecPromptConcNext ==
    \/ \E t \in Tasks, id \in PromptUserIds, app \in PromptInputApps, enabled \in BOOLEAN :
           toggle_prompt_app_update(t, id, app, enabled) /\ UNCHANGED history
    \/ \E t \in Tasks : toggle_prompt_app_get(t) /\ UNCHANGED history
    \/ \E t \in Tasks : toggle_prompt_app_write(t) /\ UNCHANGED history

SpecPromptConc == SpecPromptConcInit /\ [][SpecPromptConcNext]_vars

-----------------------------------------------------------------------------
(* Properties of the codec, stated on the runs of SpecCodec.  Call k of a   *)
(* run reads CodecArg(k) and returns cOut[k].                               *)

CodecArg(k) == IF k = 1 THEN cIn ELSE cOut[k - 1]

IsPrefix(p, s) == Len(p) <= Len(s) /\ SubSeq(s, 1, Len(p)) = p

IsSuffix(p, s) == Len(p) <= Len(s) /\ SubSeq(s, Len(s) - Len(p) + 1, Len(s)) = p

\* both markers of id occur in h
HasBothMarkers(h, id) == Contains(h, start_marker(id)) /\ Contains(h, end_marker(id))

\* the text of h before the block of id: up to the first start marker
TextBefore(h, id) == Before(h, Find(h, start_marker(id)))

\* the text of h after the block of id: past the first end marker and the
\* one newline that follows it
TextAfter(h, id) ==
    LET e == Find(h, end_marker(id)) + Len(end_marker(id))
    IN  From(h, IF e <= Len(h) /\ h[e] = NL THEN e + 1 ELSE e)

\* r keeps pre at its head and post at its tail, the two not overlapping
Keeps(r, pre, post) ==
    /\ IsPrefix(pre, r)
    /\ IsSuffix(post, r)
    /\ Len(r) >= Len(pre) + Len(post)

\* the same definition upserted twice in a row
UpsertedTwice ==
    /\ Len(cOps) = 2
    /\ cOps[1].kind = "upsert"
    /\ cOps[2] = cOps[1]

\* C5: for every haystack H and definition D,
\* upsert_block(upsert_block(H, D), D) = upsert_block(H, D).
C5_UpsertIdempotent == UpsertedTwice => cOut[2] = cOut[1]

\* the text outside the block of call k's id is kept by call k
OutsideKept(k) ==
    LET h == CodecArg(k)
        id == cOps[k].id
    IN  IF HasBothMarkers(h, id)
        THEN Keeps(cOut[k], TextBefore(h, id), TextAfter(h, id))
        ELSE Keeps(cOut[k], h, <<>>)

\* C6 as stated: every upsert_block and every remove_block keeps, byte for
\* byte and in order, the text before the start marker and the text after
\* the end marker and its one trailing newline.
C6_OutsidePreserved == \A k \in 1..Len(cOps) : OutsideKept(k)

\* pre without the newline remove_block takes from a blank line before the block
GapTrimmed(pre) == IF EndsWith(pre, <<NL, NL>>) THEN Before(pre, Len(pre)) ELSE pre

\* C6 amended: upsert_block keeps the text outside the block byte for byte;
\* remove_block keeps it too, except that of two newlines right before the
\* start marker it drops one.
C6_OutsidePreservedButGap ==
    \A k \in 1..Len(cOps) :
        LET h == CodecArg(k)
            id == cOps[k].id
        IN  IF cOps[k].kind = "remove" /\ HasBothMarkers(h, id)
            THEN cOut[k] = GapTrimmed(TextBefore(h, id)) \o TextAfter(h, id)
            ELSE OutsideKept(k)

\* C6 witness: a block that follows a blank line has been removed
C6_RemovedAfterBlankLine ==
    /\ Len(cOps) = 1
    /\ cOps[1].kind = "remove"
    /\ HasBothMarkers(cIn, cOps[1].id)
    /\ EndsWith(TextBefore(cIn, cOps[1].id), <<NL, NL>>)
    /\ cOut[1] = <<NL>>

\* a definition has been upserted and then its id removed
UpsertedThenRemoved ==
    /\ Len(cOps) = 2
    /\ cOps[1].kind = "upsert"
    /\ cOps[2].kind = "remove"
    /\ cOps[2].id = cOps[1].id

\* neither marker of id occurs in r
NoMarker(r, id) == ~Contains(r, start_marker(id)) /\ ~Contains(r, end_marker(id))

\* C7 as stated: for every haystack H and definition D,
\* remove_block(upsert_block(H, D), D.id) holds no start or end marker of D.id.
C7_RemovalComplete == UpsertedThenRemoved => NoMarker(cOut[2], cOps[1].id)

\* h holds no end marker of id, or one only, with a start marker of id before
\* it and none after it
EndMarkerClosesOnce(h, id) ==
    \/ ~Contains(h, end_marker(id))
    \/ /\ Count(h, end_marker(id)) = 1
       /\ Find(h, start_marker(id)) # 0
       /\ \A i \in 1..(Len(h) - Len(start_marker(id)) + 1) :
              SubSeq(h, i, i + Len(start_marker(id)) - 1) = start_marker(id)
                  => i < Find(h, end_marker(id))

\* C7 amended: remove_block(upsert_block(H, D), D.id) holds no marker of D.id
\* when H holds no end marker of D.id, or one only that has a start marker
\* before it and none after it, and neither D.name nor D.content holds the
\* end marker of D.id.
C7_RemovalCompleteWellFormed ==
    (/\ UpsertedThenRemoved
     /\ EndMarkerClosesOnce(cIn, cOps[1].id)
     /\ ~Contains(cOps[1].agent.name, end_marker(cOps[1].id))
     /\ ~Contains(cOps[1].agent.content, end_marker(cOps[1].id)))
        => NoMarker(cOut[2], cOps[1].id)

\* C7 witness: a block was upserted into a haystack that held one already,
\* between other text, and then removed
C7_ReplacedThenRemoved ==
    /\ UpsertedThenRemoved
    /\ cIn = <<"x">> \o start_marker("a") \o end_marker("a") \o <<"x">>
    /\ cOps[1].agent.content = <<"c1">>
    /\ cOut[2] = <<"x", "x">>

\* C8: remove_block(H, id) = H for every haystack H that does not hold both
\* markers of id.
C8_RemoveNoOpWhenAbsent ==
    \A k \in 1..Len(cOps) :
        (cOps[k].kind = "remove" /\ ~HasBothMarkers(CodecArg(k), cOps[k].id))
            => cOut[k] = CodecArg(k)

\* C8 witness: remove_block ran on a haystack holding the start marker of the
\* id and other text, but not the end marker
C8_RemovedWithStartOnly ==
    /\ Len(cOps) = 1
    /\ cOps[1].kind = "remove"
    /\ cOps[1].id = "a"
    /\ Contains(cIn, start_marker("a"))
    /\ ~Contains(cIn, end_marker("a"))
    /\ Contains(cIn, <<"x">>)

\* D1 and then D2, of the same id and of different content, upserted into ""
UpdatedInPlace ==
    /\ cIn = <<>>
    /\ Len(cOps) = 2
    /\ cOps[1].kind = "upsert"
    /\ cOps[2].kind = "upsert"
    /\ cOps[1].id = cOps[2].id
    /\ cOps[1].agent.content # cOps[2].agent.content

\* C9 as stated: upsert_block(upsert_block("", D1), D2) holds exactly one
\* start marker of the id, holds D2.content and does not hold D1.content.
C9_UpdateInPlace ==
    UpdatedInPlace =>
        /\ Count(cOut[2], start_marker(cOps[2].id)) = 1
        /\ Contains(cOut[2], cOps[2].agent.content)
        /\ ~Contains(cOut[2], cOps[1].agent.content)

\* C9 amended: when neither D1.name nor D1.content holds the end marker of the
\* id, upsert_block(upsert_block("", D1), D2) is the block of D2 and nothing
\* else: it holds D2.content, it holds one start marker more than D2.name and
\* D2.content do, and it holds D1.content only where the block of D2 does.
C9_UpdateInPlaceIsBlock ==
    (/\ UpdatedInPlace
     /\ ~Contains(cOps[1].agent.name, end_marker(cOps[1].id))
     /\ ~Contains(cOps[1].agent.content, end_marker(cOps[1].id)))
        => /\ cOut[2] = build_block(cOps[2].agent)
           /\ Contains(cOut[2], cOps[2].agent.content)
           /\ Count(cOut[2], start_marker(cOps[2].id))
                  = 1 + Count(cOps[2].agent.name, start_marker(cOps[2].id))
                      + Count(cOps[2].agent.content, start_marker(cOps[2].id))
           /\ Contains(cOut[2], cOps[1].agent.content)
                  <=> Contains(build_block(cOps[2].agent), cOps[1].agent.content)

\* C9 witness: content c1 was replaced by content c2
C9_ReplacedC1ByC2 ==
    /\ UpdatedInPlace
    /\ cOps[1].agent.content = <<"c1">>
    /\ cOps[2].agent.content = <<"c2">>
    /\ ~Contains(cOut[2], <<"c1">>)
    /\ Contains(cOut[1], <<"c1">>)

\* the heading line build_block writes for a name
HeadingLine(name) == <<NL, "# ">> \o name \o <<NL>>

\* a definition upserted into ""
UpsertedIntoEmpty ==
    /\ cIn = <<>>
    /\ Len(cOps) >= 1
    /\ cOps[1].kind = "upsert"

\* C10 as stated: for every definition D, upsert_block("", D) holds the start
\* marker of D.id once, the end marker of D.id once, the heading line of D.name
\* and D.content.
C10_RoundTripContainment ==
    UpsertedIntoEmpty =>
        /\ Count(cOut[1], start_marker(cOps[1].id)) = 1
        /\ Count(cOut[1], end_marker(cOps[1].id)) = 1
        /\ Contains(cOut[1], HeadingLine(cOps[1].agent.name))
        /\ Contains(cOut[1], cOps[1].agent.content)

\* C10 amended: upsert_block("", D) holds the heading line of D.name and
\* D.content, and holds each marker of D.id once more than D.name and D.content
\* together hold it: once when they hold none.
C10_RoundTripContainmentCounted ==
    UpsertedIntoEmpty =>
        LET d == cOps[1].agent
        IN  /\ Count(cOut[1], start_marker(d.id))
                   = 1 + Count(d.name, start_marker(d.id)) + Count(d.content, start_marker(d.id))
            /\ Count(cOut[1], end_marker(d.id))
                   = 1 + Count(d.name, end_marker(d.id)) + Count(d.content, end_marker(d.id))
            /\ Contains(cOut[1], HeadingLine(d.name))
            /\ Contains(cOut[1], d.content)

\* C10 witness: a definition of plain name and content was upserted into ""
C10_UpsertedPlain ==
    /\ UpsertedIntoEmpty
    /\ cOps[1].agent.name = <<"N">>
    /\ cOps[1].agent.content = <<"c1">>
    /\ Count(cOut[1], start_marker(cOps[1].id)) = 1
    /\ Count(cOut[1], end_marker(cOps[1].id)) = 1

-----------------------------------------------------------------------------
(* Properties of PromptService *)

\* the stored prompts enabled for a tool
EnabledFor(app) == {i \in DOMAIN prompts : app_enabled(prompts[i].apps, app)}

\* C1: in every state the PromptService operations reach, every tool has at
\* most one stored prompt enabled.
C1_AtMostOneEnabled == \A app \in Apps : Cardinality(EnabledFor(app)) <= 1

\* the last two calls enabled two different stored prompts for one tool
EnabledOneThenOther ==
    /\ last.before.op = "toggle_prompt_app"
    /\ last.before.enabled
    /\ last.call.op = "toggle_prompt_app"
    /\ last.call.enabled
    /\ last.call.app = last.before.app
    /\ last.call.id # last.before.id
    /\ last.before.id \in DOMAIN prompts
    /\ last.call.id \in DOMAIN prompts

\* what C2 says of the store after the two calls
SecondIsTheOnlyEnabled ==
    /\ ~app_enabled(prompts[last.before.id].apps, last.call.app)
    /\ app_enabled(prompts[last.call.id].apps, last.call.app)
    /\ Cardinality(EnabledFor(last.call.app)) = 1

\* a toggle_prompt_app step leaves the flags of the other tools as they were
OtherToolsKept ==
    last'.call.op = "toggle_prompt_app" =>
        /\ DOMAIN prompts' = DOMAIN prompts
        /\ \A i \in DOMAIN prompts : \A app \in Apps \ {last'.call.app} :
               prompts'[i].apps[app] = prompts[i].apps[app]

\* C2: after toggle_prompt_app(P1, T, true) and then toggle_prompt_app(P2, T, true)
\* on stored prompts P1 and P2, P1 is not enabled for T, P2 is, P2 is the only
\* prompt enabled for T, and neither call changed a flag of another tool.
C2_SecondEnableWins ==
    [][/\ EnabledOneThenOther' => SecondIsTheOnlyEnabled'
       /\ OtherToolsKept]_vars

\* C2 witness: p2 was enabled for claude right after p1 was, p1 being enabled
\* for codex as well
C2_EnabledP1ThenP2 ==
    /\ EnabledOneThenOther
    /\ last.before.id = <<"p", 1>>
    /\ last.call.id = <<"p", 2>>
    /\ last.call.app = "claude"
    /\ EnabledFor("claude") = {<<"p", 2>>}
    /\ <<"p", 1>> \in EnabledFor("codex")

\* C4: after every PromptService call, a tool with an enabled prompt has the
\* content of one of its enabled prompts in its prompt file, and a tool with
\* none has a file that is absent or empty, not one holding a prompt's content.
C4_FileFollowsFlags ==
    \A app \in Apps :
        IF EnabledFor(app) # {}
        THEN /\ promptFile[app].exists
             /\ \E i \in EnabledFor(app) : promptFile[app].text = prompts[i].content
        ELSE \/ ~promptFile[app].exists
             \/ promptFile[app].text \notin PromptContents

-----------------------------------------------------------------------------
(* Properties of AgentsService *)

\* the stored flag of an agent for a tool
Flag(id, app) == id \in DOMAIN agents /\ agents[id].apps[app]

\* a block of id in a text: a start marker with an end marker after it
HasBlock(text, id) ==
    /\ Find(text, start_marker(id)) # 0
    /\ Find(From(text, Find(text, start_marker(id))), end_marker(id)) # 0

\* the tool's projection of an agent exists
ProjectionExists(id, app) ==
    IF app \in PerFileApps
    THEN agentFile[app][id].exists
    ELSE sharedFile[app].exists /\ HasBlock(sharedFile[app].text, id)

\* the tool's projection of a stored agent holds the stored name and content
Carries(id, app) ==
    IF app \in PerFileApps
    THEN agentFile[app][id].text = build_frontmatter_md(get_agent_by_id(agents, id))
    ELSE Contains(sharedFile[app].text, build_block(get_agent_by_id(agents, id)))

\* C3: after every AgentsService call, for every agent id and every tool, the
\* stored flag is true iff the tool's projection of the agent exists, and a
\* projection that exists holds the stored name and content.
C3_FlagIffProjection ==
    \A id \in AgentIds : \A app \in Apps :
        /\ Flag(id, app) <=> ProjectionExists(id, app)
        /\ Flag(id, app) => Carries(id, app)

-----------------------------------------------------------------------------
(* Properties of AgentsService calls, stated on the steps of                *)
(* SpecAgentsCalls: `last'` is the call a step makes, `calls'` its          *)
(* Dispatcher calls, the unprimed variables the state it started from.      *)

\* the positions of the calls of `kind` in cs
PositionsOf(cs, kind) == {i \in 1..Len(cs) : cs[i].kind = kind}

\* the files a step leaves
FsAfterStep == [af |-> agentFile', sf |-> sharedFile']

\* C11: an upsert calls Dispatcher remove for exactly the tools whose flag was
\* true in the stored row and is false in the new definition, each once and
\* before its first Dispatcher sync; with no stored row it calls no remove.
C11_RemovesFirst ==
    [][(last'.call.op = "upsert" /\ last'.call.ret = "ok") =>
           LET id == last'.call.id
               dropped == {app \in Apps : Flag(id, app) /\ ~agents'[id].apps[app]}
           IN  /\ ToolsOf(calls', "remove") = dropped
               /\ Cardinality(PositionsOf(calls', "remove")) = Cardinality(dropped)
               /\ \A i \in PositionsOf(calls', "remove") :
                      /\ calls'[i].id = id
                      /\ \A j \in PositionsOf(calls', "sync") : i < j
               /\ id \notin DOMAIN agents => PositionsOf(calls', "remove") = {}
               /\ FsAfterStep = FilesAfter(calls', get_agent_by_id(agents', id))]_vars

\* C11 witness: an upsert that dropped claude and kept codex has returned
C11_DroppedClaudeKeptCodex ==
    /\ last.call.op = "upsert"
    /\ last.call.ret = "ok"
    /\ calls = <<DispatcherCall("remove", "a", "claude"), DispatcherCall("sync", "a", "codex")>>
    /\ ~agentFile["claude"]["a"].exists
    /\ HasBlock(sharedFile["codex"].text, "a")

\* C12: delete(id) with no stored agent of that id returns false and changes
\* neither the store nor a file; otherwise it deletes the row, calls
\* Dispatcher remove for exactly the tools whose flag was true in the row, and
\* returns true.
C12_DeleteContract ==
    [][(last'.call.op = "delete" /\ last'.call.ret # "err") =>
           LET id == last'.call.id
           IN  IF id \notin DOMAIN agents
               THEN /\ last'.call.ret = "false"
                    /\ UNCHANGED agentVars
                    /\ calls' = <<>>
               ELSE /\ last'.call.ret = "true"
                    /\ DOMAIN agents' = DOMAIN agents \ {id}
                    /\ \A i \in DOMAIN agents' : agents'[i] = agents[i]
                    /\ ToolsOf(calls', "remove") = {app \in Apps : agents[id].apps[app]}
                    /\ PositionsOf(calls', "remove") = 1..Len(calls')
                    /\ Len(calls') = Cardinality({app \in Apps : agents[id].apps[app]})
                    /\ \A i \in 1..Len(calls') : calls'[i].id = id
                    /\ FsAfterStep = FilesAfter(calls', get_agent_by_id(agents, id))]_vars

\* C12 witness: an agent enabled for two tools has been deleted, and a delete
\* of an id that is not stored has returned false
C12_DeletedThenNotFound ==
    /\ last.before.op = "delete"
    /\ last.before.id = "a"
    /\ last.before.ret = "true"
    /\ last.call.op = "delete"
    /\ last.call.ret = "false"
    /\ agents = EmptyTable

\* C13: toggle_app on an id with no stored agent returns Ok, creates or
\* modifies no row and writes or removes no file, whatever `enabled` is.
C13_ToggleMissingIsNoOp ==
    [][(last'.call.op = "toggle_app" /\ last'.call.id \notin DOMAIN agents) =>
           /\ last'.call.ret = "ok"
           /\ UNCHANGED agentVars
           /\ calls' = <<>>]_vars

\* C13 witness: toggle_app(b, claude, false) has returned Ok while a is stored
\* and has its claude file
C13_ToggledMissing ==
    /\ last.call = AgentCall("toggle_app", "b", "claude", FALSE, "ok")
    /\ "b" \notin DOMAIN agents
    /\ agentFile["claude"]["a"].exists
    /\ calls = <<>>

-----------------------------------------------------------------------------
(* Properties of PromptService calls, stated on the steps of SpecPrompt *)

\* C14: toggle_prompt_app on an id with no stored prompt leaves the flags of
\* every stored prompt and every tool's prompt file as they were, whatever
\* `enabled` is.
C14_ToggleMissingPromptIsNoOp ==
    [][(last'.call.op = "toggle_prompt_app" /\ last'.call.id \notin DOMAIN prompts) =>
           /\ prompts' = prompts
           /\ promptFile' = promptFile]_vars

\* C15: when P is the only stored prompt enabled for T,
\* toggle_prompt_app(P, T, false) leaves T's prompt file existing and empty and
\* no stored prompt enabled for T.
C15_DisableClearsFile ==
    [][(/\ last'.call.op = "toggle_prompt_app"
        /\ ~last'.call.enabled
        /\ EnabledFor(last'.call.app) = {last'.call.id}) =>
           /\ promptFile'[last'.call.app] = FileWith(<<>>)
           /\ \A i \in DOMAIN prompts' : ~app_enabled(prompts'[i].apps, last'.call.app)]_vars

\* C15 witness: p1 was enabled for claude by a toggle and disabled by the next,
\* and the claude file is there, empty
C15_EnabledThenDisabled ==
    /\ last.before = Call("toggle_prompt_app", <<"p", 1>>, "claude", TRUE)
    /\ last.call = Call("toggle_prompt_app", <<"p", 1>>, "claude", FALSE)
    /\ <<"p", 1>> \in DOMAIN prompts
    /\ promptFile["claude"] = FileWith(<<>>)
    /\ EnabledFor("claude") = {}

\* C16: after toggle_prompt_app(P, T, true) on a stored prompt P, T's prompt
\* file holds P's stored content.
C16_EnableWritesContent ==
    (/\ last.call.op = "toggle_prompt_app"
     /\ last.call.enabled
     /\ last.call.id \in DOMAIN prompts)
        => promptFile[last.call.app] = FileWith(prompts[last.call.id].content)

\* C16 witness: p2, of content c2, was enabled for codex right after p1, of
\* content c1, had been
C16_EnabledP2OverP1 ==
    /\ last.before = Call("toggle_prompt_app", <<"p", 1>>, "codex", TRUE)
    /\ last.call = Call("toggle_prompt_app", <<"p", 2>>, "codex", TRUE)
    /\ <<"p", 1>> \in DOMAIN prompts
    /\ <<"p", 2>> \in DOMAIN prompts
    /\ prompts[<<"p", 1>>].content = <<"c1">>
    /\ prompts[<<"p", 2>>].content = <<"c2">>
    /\ promptFile["codex"].text = <<"c2">>

\* C19: enabling a prompt is atomic at the store: when toggle_prompt_app with
\* enabled = true returns a database error, no flag of any stored prompt has
\* changed, so a failed set leaves the clear unapplied.
C19_EnableIsAtomic ==
    [][(/\ last'.call.op = "toggle_prompt_app"
        /\ last'.call.enabled
        /\ last'.call.ret = "err") => prompts' = prompts]_vars

-----------------------------------------------------------------------------
(* Failing Dispatcher calls, stated on the steps of SpecAgentsCalls *)

Front(cs) == SubSeq(cs, 1, Len(cs) - 1)

\* the Dispatcher calls made are the first ones of `plan`, the last of them
\* being the one that failed, and the files are what the calls before it made
StoppedAtFailure(plan, agent) ==
    /\ Len(calls') >= 1
    /\ Len(calls') <= Len(plan)
    /\ calls' = SubSeq(plan, 1, Len(calls'))
    /\ FsAfterStep = FilesAfter(Front(calls'), agent)

\* C17: when a Dispatcher call fails during upsert, delete or toggle_app, the
\* operation returns the error, no Dispatcher call is made for the tools after
\* the failing one, and the store write or delete that preceded stays.
C17_FailureKeepsStoreWrite ==
    [][last'.call.ret = "err" =>
          LET id == last'.call.id
          IN  CASE last'.call.op = "upsert" ->
                       /\ id \in DOMAIN agents'
                       /\ StoppedAtFailure(upsert_calls(get_agent_by_id(agents', id)),
                                           get_agent_by_id(agents', id))
                [] last'.call.op = "delete" ->
                       /\ id \in DOMAIN agents
                       /\ id \notin DOMAIN agents'
                       /\ StoppedAtFailure(delete_calls(id), get_agent_by_id(agents, id))
                [] last'.call.op = "toggle_app" ->
                       /\ id \in DOMAIN agents
                       /\ id \in DOMAIN agents'
                       /\ agents'[id] = [agents[id] EXCEPT !.apps[last'.call.app] = last'.call.enabled]
                       /\ StoppedAtFailure(toggle_app_calls(id, last'.call.app, last'.call.enabled),
                                           get_agent_by_id(agents', id))
                [] OTHER -> FALSE]_vars

\* C17 witness: an upsert that drops claude and adds codex failed at the claude
\* remove: the row is written, the claude file is still there and codex was
\* never synced
C17_FailedAtFirstRemove ==
    /\ last.call = AgentCall("upsert", "a", "-", FALSE, "err")
    /\ calls = <<DispatcherCall("remove", "a", "claude")>>
    /\ "a" \in DOMAIN agents
    /\ ~agents["a"].apps["claude"]
    /\ agents["a"].apps["codex"]
    /\ ProjectionExists("a", "claude")
    /\ ~ProjectionExists("a", "codex")

\* C18: after a failed upsert or toggle_app, the next successful upsert or
\* toggle_app on the same definition leaves, for every tool, its flag true
\* exactly when its projection exists.
C18_NextSuccessRepairs ==
    (/\ last.before.op \in {"upsert", "toggle_app"}
     /\ last.before.ret = "err"
     /\ last.call.op \in {"upsert", "toggle_app"}
     /\ last.call.ret = "ok"
     /\ last.call.id = last.before.id
     /\ last.call.id \in DOMAIN agents)
        => \A app \in Apps : Flag(last.call.id, app) <=> ProjectionExists(last.call.id, app)

\* every Dispatcher call of cs is a remove of a projection that does not exist
AllRemoveMissing(cs) ==
    \A i \in 1..Len(cs) : cs[i].kind = "remove" /\ ~ProjectionExists(cs[i].id, cs[i].app)

-----------------------------------------------------------------------------
(* More properties of PromptService calls, on the steps of SpecPrompt *)

\* C21: delete_prompt(id) of a stored prompt leaves the file of every tool
\* whose flag was true in it with empty content, and the file of every tool
\* whose flag was false as it was; delete_prompt of an unknown id leaves every
\* file as it was.
C21_DeleteErasesProjection ==
    [][last'.call.op = "delete_prompt" =>
          LET id == last'.call.id
          IN  \A app \in Apps :
                  IF id \in DOMAIN prompts /\ app_enabled(prompts[id].apps, app)
                  THEN promptFile'[app].text = <<>>
                  ELSE promptFile'[app] = promptFile[app]]_vars

\* C21 witness: p1 was enabled for codex, then deleted; the row is gone and the
\* codex file is empty
C21_DeletedEnabledPrompt ==
    /\ last.before = Call("toggle_prompt_app", <<"p", 1>>, "codex", TRUE)
    /\ last.call = Call("delete_prompt", <<"p", 1>>, "-", FALSE)
    /\ <<"p", 1>> \notin DOMAIN prompts
    /\ promptFile["codex"] = FileWith(<<>>)

\* C22: no file-sync error of the prompt operations is swallowed: every
\* upsert_prompt, delete_prompt or toggle_prompt_app in which a file write or
\* truncation failed returns an error.
C22_FileErrorsReturned ==
    [][Len(calls') > 0 => last'.call.ret = "err"]_vars

-----------------------------------------------------------------------------
(* More properties of the codec, on the runs of SpecCodec *)

\* C23: upsert_block and remove_block find a block of the id only where the
\* first end marker comes after the first start marker: on a haystack with no
\* start marker followed by an end marker, in particular one whose only end
\* marker precedes its start marker, remove_block returns the haystack as it is
\* and upsert_block returns the haystack with the built block appended.
C23_BlockNeedsEndAfterStart ==
    \A k \in 1..Len(cOps) :
        LET h == CodecArg(k)
            id == cOps[k].id
        IN  ~HasBlock(h, id) =>
                IF cOps[k].kind = "remove"
                THEN cOut[k] = h
                ELSE /\ IsPrefix(h, cOut[k])
                     /\ IsSuffix(build_block(cOps[k].agent), cOut[k])
                     /\ Len(cOut[k]) >= Len(h) + Len(build_block(cOps[k].agent))

\* h without the newlines at its end
RECURSIVE StripNewlines(_)
StripNewlines(h) ==
    IF h # <<>> /\ h[Len(h)] = NL THEN StripNewlines(Before(h, Len(h))) ELSE h

\* call k is an upsert_block that appends: its haystack lacks a marker of the id
Appends(k) == cOps[k].kind = "upsert" /\ ~HasBothMarkers(CodecArg(k), cOps[k].id)

\* C24 as stated: when upsert_block appends to a non-empty haystack, exactly one
\* blank line separates the new block from the text before it, however many
\* newlines the haystack ends with; appended to an empty haystack the result is
\* the built block.
C24_OneBlankLine ==
    \A k \in 1..Len(cOps) :
        Appends(k) =>
            cOut[k] = IF CodecArg(k) = <<>>
                      THEN build_block(cOps[k].agent)
                      ELSE StripNewlines(CodecArg(k)) \o <<NL, NL>> \o build_block(cOps[k].agent)

\* the newlines that make h end with a blank line, none being taken away
GapFor(h) ==
    IF EndsWith(h, <<NL, NL>>) THEN <<>>
    ELSE IF EndsWith(h, <<NL>>) THEN <<NL>> ELSE <<NL, NL>>

\* C24 amended: when upsert_block appends to a non-empty haystack, the result
\* is the whole haystack, then the fewest newlines that make it end with a
\* blank line, then the built block: one blank line after a haystack that ends
\* with up to two newlines, and every newline kept of one that ends with more;
\* appended to an empty haystack the result is the built block.
C24_AtLeastOneBlankLine ==
    \A k \in 1..Len(cOps) :
        Appends(k) =>
            cOut[k] = IF CodecArg(k) = <<>>
                      THEN build_block(cOps[k].agent)
                      ELSE CodecArg(k) \o GapFor(CodecArg(k)) \o build_block(cOps[k].agent)

\* C24 witness: a block was appended to a haystack ending with three newlines,
\* all three kept
C24_AppendedAfterThreeNewlines ==
    /\ Len(cOps) = 1
    /\ Appends(1)
    /\ cIn = <<"x", NL, NL, NL>>
    /\ cOut[1] = cIn \o build_block(cOps[1].agent)

\* the position in h of the first end marker of id that follows the first
\* start marker of id, h having a block of id
BlockEnd(h, id) ==
    LET s == Find(h, start_marker(id))
    IN  s - 1 + Find(From(h, s), end_marker(id))

\* the text of h after its block of id and the one newline that follows it
TextAfterBlock(h, id) ==
    LET e == BlockEnd(h, id) + Len(end_marker(id))
    IN  From(h, IF e <= Len(h) /\ h[e] = NL THEN e + 1 ELSE e)

\* C25: remove_block on a haystack with a block of the id deletes the range
\* from the start marker through the end marker that follows it and one
\* trailing newline if there is one, and one more newline before the start
\* marker when the text before it ends with two newlines; everything else is
\* kept, so the neighbours of the removed block end up one blank line apart.
C25_RemoveDeletesBlockRange ==
    \A k \in 1..Len(cOps) :
        LET h == CodecArg(k)
            id == cOps[k].id
        IN  (cOps[k].kind = "remove" /\ HasBlock(h, id)) =>
                cOut[k] = GapTrimmed(TextBefore(h, id)) \o TextAfterBlock(h, id)

\* the block of id in h, from its start marker through the end marker that
\* follows it, h having a block of id
BlockOf(h, id) ==
    SubSeq(h, Find(h, start_marker(id)), BlockEnd(h, id) + Len(end_marker(id)) - 1)

-----------------------------------------------------------------------------
(* Blocks of several agents in one file, on the runs of SpecBlocks *)

\* call k, on id x, leaves the block of every other id as it was, once and in
\* the same order, and a block it replaces is where the old one began, once
OthersKept(k) ==
    LET h == CodecArg(k)
        x == cOps[k].id
        others == {y \in BlockIds \ {x} : HasBlock(h, y)}
    IN  /\ \A y \in others :
               /\ HasBlock(cOut[k], y)
               /\ BlockOf(cOut[k], y) = BlockOf(h, y)
               /\ Count(cOut[k], start_marker(y)) = Count(h, start_marker(y))
        /\ \A y \in others, z \in others :
               Find(h, start_marker(y)) < Find(h, start_marker(z))
                   => Find(cOut[k], start_marker(y)) < Find(cOut[k], start_marker(z))
        /\ (cOps[k].kind = "upsert" /\ HasBlock(h, x)) =>
               /\ IsPrefix(TextBefore(h, x) \o build_block(cOps[k].agent), cOut[k])
               /\ Count(cOut[k], start_marker(x)) = Count(h, start_marker(x))

\* C26: blocks of different agents coexist independently in one shared file:
\* for distinct ids x and y, upserting or removing the block of x leaves the
\* block of y byte-identical, leaves the other blocks in the order they had,
\* and an updated block occupies the position its old block had.  Names and
\* contents here hold no marker.
C26_BlocksIndependent == \A k \in 1..Len(cOps) : OthersKept(k)

-----------------------------------------------------------------------------
(* Edits and toggles of stored agents, on the steps of SpecAgents.  Only an  *)
(* upsert changes the name or content of a stored row, and only a toggle_app *)
(* changes exactly one flag of a row and nothing else in the table.          *)

\* the definition with this id in the table before the step
OldAgent(id) == get_agent_by_id(agents, id)

\* the definition with this id in the table after the step
NewAgent(id) == get_agent_by_id(agents', id)

\* after the step, the tool's projection of the agent holds the text built
\* from `new` and nothing built from `old`
HoldsNewNotOld(id, app, new, old) ==
    IF app \in PerFileApps
    THEN agentFile'[app][id] = FileWith(build_frontmatter_md(new))
    ELSE /\ sharedFile'[app].exists
         /\ Contains(sharedFile'[app].text, build_block(new))
         /\ ~Contains(sharedFile'[app].text, build_block(old))

\* C27: content edits propagate to already-enabled tools: after an upsert that
\* changes the content of a stored definition, the projection of every tool
\* whose flag is true in the new definition, tools whose flag was already true
\* included, holds the new name and content and not the old content.
C27_EditsPropagate ==
    [][\A id \in AgentIds :
           (/\ id \in DOMAIN agents
            /\ id \in DOMAIN agents'
            /\ agents'[id].content # agents[id].content) =>
               \A app \in Apps :
                   agents'[id].apps[app] =>
                       HoldsNewNotOld(id, app, NewAgent(id), OldAgent(id))]_vars

-----------------------------------------------------------------------------
(* toggle_app among two stored agents, on the steps of SpecAgentsPair *)

\* the tool's projection of an agent in the files fs: its file, or its block
\* in the shared file; <<>> when there is none
ProjectionIn(fs, id, app) ==
    IF app \in PerFileApps
    THEN fs.af[app][id]
    ELSE IF fs.sf[app].exists /\ HasBlock(fs.sf[app].text, id)
         THEN FileWith(BlockOf(fs.sf[app].text, id))
         ELSE NoFile

-----------------------------------------------------------------------------
(* upsert_prompt and the first-launch import *)

\* C29: upsert_prompt syncs the files tool by tool from the saved prompt's
\* flags: the file of a tool whose flag is true is written with the prompt's
\* content; the file of a tool whose flag is false is truncated to empty if no
\* stored prompt has the tool enabled after the save and the file exists, and
\* is otherwise left as it was.
C29_UpsertSyncsPerTool ==
    [][last'.call.op = "upsert_prompt" =>
          LET id == last'.call.id
          IN  /\ id \in DOMAIN prompts'
              /\ \A app \in Apps :
                     promptFile'[app] =
                         IF app_enabled(prompts'[id].apps, app)
                         THEN FileWith(prompts'[id].content)
                         ELSE IF ~AnyEnabled(prompts', app) /\ promptFile[app].exists
                              THEN FileWith(<<>>)
                              ELSE promptFile[app]]_vars

\* C29 witness: p1, enabled for codex by a toggle, was then saved with claude
\* on and codex off: the claude file holds its content, the codex file is empty
C29_SavedWithCodexOff ==
    /\ last.before = Call("toggle_prompt_app", <<"p", 1>>, "codex", TRUE)
    /\ last.call = Call("upsert_prompt", <<"p", 1>>, "-", FALSE)
    /\ <<"p", 1>> \in DOMAIN prompts
    /\ prompts[<<"p", 1>>].apps["claude"]
    /\ ~prompts[<<"p", 1>>].apps["codex"]
    /\ promptFile["claude"] = FileWith(prompts[<<"p", 1>>].content)
    /\ promptFile["codex"] = FileWith(<<>>)

\* the step is a call of import_from_file_on_first_launch: the last call
\* recorded is one, and the step is not a tick of the clock
FirstLaunchImport ==
    /\ last'.call.op = "import_from_file_on_first_launch"
    /\ now' = now

\* C30: import_from_file_on_first_launch is idempotent per tool: when a stored
\* prompt already has the tool's flag true the call returns 0 and changes
\* neither the store nor a file; a call that follows a call for the same tool
\* returns 0, so the two import one prompt at most, and exactly one when the
\* first found a non-blank file and no enabled prompt; and a call that imports
\* leaves exactly one prompt enabled for the tool.
C30_FirstLaunchImportIdempotent ==
    [][FirstLaunchImport =>
          LET app == last'.call.app
          IN  /\ AnyEnabled(prompts, app) =>
                     /\ last'.call.ret = "0"
                     /\ prompts' = prompts
              /\ promptFile' = promptFile
              /\ (last.call.op = "import_from_file_on_first_launch" /\ last.call.app = app) =>
                     /\ last'.call.ret = "0"
                     /\ prompts' = prompts
              /\ (/\ ~AnyEnabled(prompts, app)
                  /\ promptFile[app].exists
                  /\ ~TrimIsEmpty(promptFile[app].text)) => last'.call.ret = "1"
              /\ last'.call.ret = "0" => prompts' = prompts
              /\ last'.call.ret = "1" =>
                     /\ Cardinality(DOMAIN prompts' \ DOMAIN prompts) <= 1
                     /\ Cardinality({i \in DOMAIN prompts' : app_enabled(prompts'[i].apps, app)}) = 1]_vars

\* C30 witness: the codex file held a user's prompt; it was imported once, and
\* the last call, an import for codex again, returned 0
C30_ImportedOnce ==
    /\ last.call = PromptCall("import_from_file_on_first_launch", <<"-", 0>>, "codex", FALSE, "0")
    /\ DOMAIN prompts = {<<"auto-imported-", 0>>}
    /\ prompts[<<"auto-imported-", 0>>].content = HumanPrompt
    /\ app_enabled(prompts[<<"auto-imported-", 0>>].apps, "codex")
    /\ promptFile["codex"] = FileWith(HumanPrompt)

-----------------------------------------------------------------------------
(* Enabling and then disabling an agent for a shared-file tool, on the      *)
(* steps of SpecRoundTrip                                                   *)

\* a shared file that is absent, empty, or ends with exactly one newline and
\* holds no marker of id
PlainFile(f, id) ==
    \/ ~f.exists
    \/ f.text = <<>>
    \/ /\ EndsWith(f.text, <<NL>>)
       /\ ~EndsWith(f.text, <<NL, NL>>)
       /\ NoMarker(f.text, id)

\* the step is toggle_app(id, app, false) on a stored agent, made right after
\* toggle_app(id, app, true)
DisablesAfterEnabling(id, app) ==
    /\ last.call = AgentCall("toggle_app", id, app, TRUE, "ok")
    /\ last'.call = AgentCall("toggle_app", id, app, FALSE, "ok")
    /\ id \in DOMAIN agents

\* C31 as stated: when the shared file of Codex or Gemini is absent, empty, or
\* ends with exactly one newline and holds no marker of the id, toggle_app(id,
\* tool, true) followed by toggle_app(id, tool, false) leaves the file with the
\* text it had before the two calls (an absent file becomes an empty one).
C31_RoundTripRestores ==
    [][\A id \in AgentIds, app \in SharedApps :
           (DisablesAfterEnabling(id, app) /\ PlainFile(last.was[app], id))
               => sharedFile'[app] = FileWith(last.was[app].text)]_vars

\* C31 amended: the same, for an agent whose name and content hold no end
\* marker of its id.
C31_RoundTripRestoresPlainAgent ==
    [][\A id \in AgentIds, app \in SharedApps :
           (/\ DisablesAfterEnabling(id, app)
            /\ PlainFile(last.was[app], id)
            /\ ~Contains(agents[id].name, end_marker(id))
            /\ ~Contains(agents[id].content, end_marker(id)))
               => sharedFile'[app] = FileWith(last.was[app].text)]_vars

\* C31 witness: a was enabled for Codex on a file of one line and then
\* disabled; the disable started from a file holding a's block and left the
\* one line
C31_EnabledThenDisabledOnOneLine ==
    /\ last.call = AgentCall("toggle_app", "a", "codex", FALSE, "ok")
    /\ "a" \in DOMAIN agents
    /\ agents["a"].content = <<"c1">>
    /\ HasBlock(last.was["codex"].text, "a")
    /\ Contains(last.was["codex"].text, <<"x", NL, NL>> \o start_marker("a"))
    /\ sharedFile["codex"] = FileWith(<<"x", NL>>)

-----------------------------------------------------------------------------
(* Two toggle_app calls side by side, on the states of SpecAgentsConc *)

\* both tasks have returned from toggle_app(.., app, true), for two different
\* stored agents and the same shared-file tool
BothEnabled(t1, t2, app) ==
    /\ t1 # t2
    /\ tasks[t1].pc = "done" /\ tasks[t2].pc = "done"
    /\ tasks[t1].enabled /\ tasks[t2].enabled
    /\ tasks[t1].app = app /\ tasks[t2].app = app
    /\ tasks[t1].found /\ tasks[t2].found
    /\ tasks[t1].id # tasks[t2].id

\* C32: when two calls that enable two different agents for the same
\* shared-file tool run side by side, with their file reads and writes
\* interleaved in any order, then once both have returned the shared file holds
\* the blocks of both agents, and both stored flags are true.
C32_NoLostUpdate ==
    \A t1 \in Tasks, t2 \in Tasks, app \in SharedApps :
        BothEnabled(t1, t2, app) =>
            /\ agents[tasks[t1].id].apps[app] /\ agents[tasks[t2].id].apps[app]
            /\ HasBlock(sharedFile[app].text, tasks[t1].id)
            /\ HasBlock(sharedFile[app].text, tasks[t2].id)

-----------------------------------------------------------------------------
(* Two toggle_prompt_app calls side by side, on the states of SpecPromptConc *)

\* both tasks have returned from toggle_prompt_app(.., app, true), for two
\* different stored prompts
BothEnabledPrompts(t1, t2, app) ==
    /\ t1 # t2
    /\ tasks[t1].pc = "done" /\ tasks[t2].pc = "done"
    /\ tasks[t1].enabled /\ tasks[t2].enabled
    /\ tasks[t1].app = app /\ tasks[t2].app = app
    /\ tasks[t1].id # tasks[t2].id
    /\ tasks[t1].id \in DOMAIN prompts /\ tasks[t2].id \in DOMAIN prompts

\* C33: when two toggle_prompt_app calls that enable two different prompts P1
\* and P2 for the same tool T run side by side, with their store update, store
\* read and file write interleaved in any order, then once both have returned
\* exactly one of P1, P2 has T's flag true and T's file holds that prompt's
\* content.
C33_OneWinnerAndItsFile ==
    \A t1 \in Tasks, t2 \in Tasks, app \in Apps :
        BothEnabledPrompts(t1, t2, app) =>
            \E w \in {tasks[t1].id, tasks[t2].id} :
                /\ \A i \in {tasks[t1].id, tasks[t2].id} : prompts[i].apps[app] <=> i = w
                /\ promptFile[app] = FileWith(prompts[w].content)

-----------------------------------------------------------------------------
(* import_from_file, on the steps of SpecImportFile *)

\* the step is an import_from_file call that returned Ok(id)
ImportedFromFile ==
    /\ last'.call.op = "import_from_file"
    /\ last'.call.ret = "ok"
    /\ now' = now

\* C34: import_from_file(app) only reads the tool's prompt file: after it has
\* returned Ok, every tool's prompt file has the content it had before the
\* call, and the stored imported prompt's content is that of the tool's file.
C34_ImportOnlyReads ==
    [][ImportedFromFile =>
           /\ promptFile' = promptFile
           /\ last'.call.id \in DOMAIN prompts'
           /\ prompts'[last'.call.id].content = promptFile[last'.call.app].text]_vars

-----------------------------------------------------------------------------
(* A delete repeated after a failed one, on the states of SpecAgentsCalls *)

\* C35: when delete(id) has failed in a file-removal step after the row was
\* deleted, and the next call, delete(id) again, has returned Ok, no file and
\* no block of id is left on disk, id having no stored row.
C35_RetriedDeleteCleansUp ==
    (/\ last.before.op = "delete"
     /\ last.before.ret = "err"
     /\ last.call.op = "delete"
     /\ last.call.ret # "err"
     /\ last.call.id = last.before.id
     /\ last.call.id \notin DOMAIN agents)
        => \A app \in Apps : ~ProjectionExists(last.call.id, app)

-----------------------------------------------------------------------------
(* First-launch imports for two tools, on the steps of SpecImport *)

\* the step is an import_from_file_on_first_launch(B) that returned Ok(1), the
\* call before it being an import_from_file_on_first_launch(A) that returned
\* Ok(1)
ImportedForTwoTools(A, B) ==
    /\ A # B
    /\ last.call.op = "import_from_file_on_first_launch"
    /\ last.call.app = A
    /\ last.call.ret = "1"
    /\ last'.call.op = "import_from_file_on_first_launch"
    /\ last'.call.app = B
    /\ last'.call.ret = "1"

\* C36: after import_from_file_on_first_launch has imported for tool A and
\* then for tool B, in the same clock second or not, the store holds a prompt
\* with A's flag true and a prompt with B's flag true, each with the content
\* of its own tool's file.
C36_FirstLaunchImportsKeepEachOther ==
    [][\A A \in Apps, B \in Apps :
           ImportedForTwoTools(A, B) =>
               \A T \in {A, B} :
                   \E i \in DOMAIN prompts' :
                       /\ app_enabled(prompts'[i].apps, T)
                       /\ prompts'[i].content = promptFile'[T].text]_vars

====
